---- MODULE Spec2Model ----
(***************************************************************************)
(* Mount lifecycle orchestrator of filen-network-drive                     *)
(* (src/src/index.ts, class NetworkDrive).                                 *)
(*                                                                         *)
(* The orchestrator runs on one JavaScript event loop: every action below  *)
(* is the code that runs between two suspension points (await, timer,      *)
(* process event) of one call.  Callers are two users, the background      *)
(* monitor and the readiness-timeout callback of each user's start().      *)
(***************************************************************************)
EXTENDS Integers, Sequences, FiniteSets, TLC

\* ---------------------------------------------------------------- bounds
MaxProc == 2        \* engine process slots (ChildProcess objects in use)
MaxSrv == 2         \* endpoint slots (a slot stands for the server and its port)
MaxCalls == 2       \* start()/stop() calls the users make in one behaviour
MaxDownloads == 2   \* downloads of the engine binary begun in one behaviour
MaxContent == 2     \* distinct file contents the download URL may deliver
MaxCount == 1       \* largest counter the engine reports in vfs/stats
MaxBlocks == 64     \* most blocks statfs reports available on the cache volume
MaxTransfers == 1   \* most entries of core/stats' transferring

Users == {"u1", "u2"}
Frames == Users \cup {"mon", "t1", "t2"}
NoOne == "none"

TmoOf(u) == IF u = "u1" THEN "t1" ELSE "t2"

Procs == 1 .. MaxProc
Srvs == 1 .. MaxSrv

VARIABLES
    active,         \* this.active
    rcloneProcess,  \* this.rcloneProcess: 0 = null, else a process slot
    webdavServer,   \* this.webdavServer: 0 = null, else an endpoint slot
    webdavPort,     \* this.webdavPort: 0 = the default port, nothing listens
    rclonePort,     \* this.rclonePort: 0 = the default port, else the slot using it
    monitorProcess, \* this.monitorProcess # null (the watchdog handle)
    proc,           \* engine processes: alive, listeners attached, owning wait
    srv,            \* endpoint slots: TRUE = listening
    startMutex,     \* this.startMutex
    stopMutex,      \* this.stopMutex
    upc,            \* position of each user's call
    sf,             \* position of each caller's stop() frame
    stgt,           \* the server a stop() frame is awaiting stop(true) of
    sclean,         \* the user's last stop() was called in state Stopped
    prom,           \* readiness promise of each user's spawnRClone
    iv,             \* checkInterval armed
    to,             \* checkTimeout armed
    ivp,            \* an interval probe is in flight
    tmo,            \* position of the timeout callback
    mpc,            \* position of the background monitor
    monitors,       \* monitor invocations pending or running
    quiet,          \* a stop() completed and no start() was called since
    calls,          \* calls made so far
    ev,             \* what the last step did (observation only)
    webdavUsername, \* this.webdavUsername: 0 = "admin", else a generated string
    webdavPassword, \* this.webdavPassword: 0 = "admin", else a generated string
    issued,         \* strings generateRandomString has returned so far
    endpointUser,   \* username and password each endpoint was constructed with
    rcloneConfig,   \* content of the engine config file
    alloc,          \* what the start() in progress has allocated so far
    watchdogs,      \* watchdog processes alive
    rcloneBinaryPath,     \* this.rcloneBinaryPath
    getRCloneBinaryMutex, \* this.getRCloneBinaryMutex
    cpc,            \* position of each caller of getRCloneBinaryPath
    cret,           \* what each caller's last getRCloneBinaryPath gave
    tmp,            \* content of the temporary file of each caller's download
    dest,           \* content of the file at the install path of the binary
    executable,     \* the file at the install path has its x bits set
    downloads,      \* downloads begun so far
    statsIn,        \* what the last getStats() met: this.active and the two answers
    statsOut,       \* what the last getStats() gave
    probeIn,        \* what the last isMountActuallyActive() met
    probeOut,       \* what the last isMountActuallyActive() gave
    cacheIn,        \* what statfs gave to the last rcloneArgs()
    cacheOut        \* the cache size of the last rcloneArgs()

vars == <<active, rcloneProcess, webdavServer, webdavPort, rclonePort,
          monitorProcess, proc, srv, startMutex, stopMutex, upc, sf, stgt,
          sclean, prom, iv, to, ivp, tmo, mpc, monitors, quiet, calls, ev,
          webdavUsername, webdavPassword, issued, endpointUser, rcloneConfig,
          alloc, watchdogs,
          rcloneBinaryPath, getRCloneBinaryMutex, cpc, cret, tmp, dest, executable,
          downloads, statsIn, statsOut, probeIn, probeOut, cacheIn, cacheOut>>

\* The mount lifecycle: start(), stop(), the monitor, the engine.
lifecycleVars == <<active, rcloneProcess, webdavServer, webdavPort, rclonePort,
                   monitorProcess, proc, srv, startMutex, stopMutex, upc, sf, stgt,
                   sclean, prom, iv, to, ivp, tmo, mpc, monitors, quiet, calls, ev,
                   webdavUsername, webdavPassword, issued, endpointUser, rcloneConfig,
                   alloc, watchdogs>>

\* The provisioning of the engine binary, step by step.
provisionVars == <<rcloneBinaryPath, getRCloneBinaryMutex, cpc, cret, tmp, dest,
                   executable, downloads>>

\* What the steps of the mount lifecycle leave alone.
auxVars == <<provisionVars, statsIn, statsOut, probeIn, probeOut, cacheIn, cacheOut>>

credVars == <<webdavUsername, webdavPassword, issued, endpointUser, rcloneConfig>>

\* ------------------------------------------------------------ observation
\* What a step of start() found around it.  The checks: whether the mount
\* driver is installed, the drive letter on win32, on linux and darwin the
\* path and what the file system holds there.  The provisioning of the
\* engine binary: whether rcloneBinaryPath is set, the file is on disk and
\* BINARY_HASHES has an entry for it.
\* os.homedir(), as the segments of the path.
HomeDir == <<"home", "u">>

\* Mount points as their segments: a directory outside the home directory,
\* one inside it, one written with ".." that stays inside and one that
\* begins with the home directory and leaves it through "..".
MountPaths ==
    {<<"mnt", "d">>,
     <<"home", "u", "d">>,
     <<"home", "u", "d", "..", "e">>,
     <<"home", "u", "..", "..", "mnt", "d">>}

\* mountPoint.startsWith(os.homedir() + "/"): the text of the path begins
\* with the text of the home directory and a separator.
StartsWithHome(path) ==
    /\ Len(path) > Len(HomeDir)
    /\ SubSeq(path, 1, Len(HomeDir)) = HomeDir

\* The directory the kernel reaches by a path: every ".." steps back to
\* the parent, the parent of the root being the root.
RECURSIVE Resolve(_)
Resolve(path) ==
    IF path = <<>> THEN <<>>
    ELSE LET before == Resolve(SubSeq(path, 1, Len(path) - 1))
             last   == path[Len(path)]
         IN  IF last = ".."
             THEN IF before = <<>> THEN <<>> ELSE SubSeq(before, 1, Len(before) - 1)
             ELSE Append(before, last)

\* The directory a path leads to lies in the home directory hierarchy.
UnderHome(path) ==
    LET r == Resolve(path)
    IN  /\ Len(r) >= Len(HomeDir)
        /\ SubSeq(r, 1, Len(HomeDir)) = HomeDir

NoTarget == [platform |-> "none", driver |-> TRUE, dollar |-> FALSE, path |-> <<"home", "u", "d">>,
             exists |-> TRUE, dir |-> TRUE, empty |-> TRUE, letterFree |-> TRUE,
             cached |-> FALSE, file |-> TRUE, hash |-> TRUE]

NoEv == [k |-> "none", t |-> NoOne, ok |-> FALSE, at |-> "none", alloc |-> {}, m |-> NoTarget]

Ev(k, t, ok, at) == [k |-> k, t |-> t, ok |-> ok, at |-> at, alloc |-> {}, m |-> NoTarget]

\* -------------------------------------------------------------- semaphore
\* Semaphore(1): a counter and a FIFO list of waiters.
FreeMutex == [holder |-> NoOne, waiting |-> <<>>]

Acquire(m, t) ==
    IF m.holder = NoOne
    THEN [m EXCEPT !.holder = t]
    ELSE [m EXCEPT !.waiting = Append(@, t)]

Release(m) ==
    IF m.waiting = <<>>
    THEN [m EXCEPT !.holder = NoOne]
    ELSE [holder |-> Head(m.waiting), waiting |-> Tail(m.waiting)]

\* ------------------------------------------------------------ credentials
\* generateRandomString(32): 32 characters derived from crypto.randomBytes.
\* The n-th string drawn is taken to differ from every string drawn before.
generateRandomString(n) == n + 1

\* rclone obscure: a reversible encoding of the password, never the
\* password itself.
obscureRClonePassword(password) == -(password + 1)

\* No config file written by this instance yet.
NoConfig == [url |-> 0, user |-> 0, pass |-> 0]

\* As writeRCloneConfig, with a config file that is on disk left as it is.
writeRCloneConfigOnce(endpoint, user, password) ==
    IF rcloneConfig # NoConfig
    THEN rcloneConfig
    ELSE [url |-> endpoint, user |-> user, pass |-> obscureRClonePassword(password)]

\* writeRCloneConfig: the content written to the config file (it replaces
\* the file): the endpoint, the user and the obscured password.
writeRCloneConfig(endpoint, user, password) ==
    [url |-> endpoint, user |-> user, pass |-> obscureRClonePassword(password)]

\* ------------------------------------------------------------ provisioning
\* Callers of getRCloneBinaryPath: the constructor's prefetch (185),
\* obscureRClonePassword (637) and spawnRClone (734).
Callers == {"prefetch", "obscure", "spawn"}

\* this.rcloneBinaryPath before it is set, and join(configPath,
\* RCLONE_BINARY_NAME), the one value it is ever set to.
NoPath == "null"

BinaryPath == "configPath/RCLONE_BINARY_NAME"

\* File contents: 0 for no file, 1 for the published binary, larger numbers
\* for anything else the URL may deliver.
NoFile == 0

Published == 1

Contents == 1 .. MaxContent

\* crypto.createHash("sha512") of a content, as a number: different
\* contents of the model have different digests.
SHA512(c) == (7 * c + 3) % 16

\* BINARY_HASHES[RCLONE_BINARY_NAME]: the digest of the published binary.
BINARY_HASH == SHA512(Published)

\* ------------------------------------------------------------- getStats()
\* A value that is not of type number, and one that is not of type string.
NotANumber == -1

NotAString == "#"

\* An entry of core/stats' transferring: null, or an object whose name,
\* size and speed have the expected type or not.
TransferEntries ==
    [null : BOOLEAN, name : {"file", NotAString}, size : {1, NotANumber}, speed : {1, NotANumber}]

\* Sequences of at most n entries.
EntriesUpTo(n) == UNION {[1 .. k -> TransferEntries] : k \in 0 .. n}

\* The answer to POST /core/stats: the request fails or times out after
\* 5 s; or it answers without a body; or with a body whose transferring is
\* missing, not an array, or an array.
CoreAnswers ==
    [status : {"failed", "timeout", "nodata"}, transferring : {"missing"}, items : {<<>>}]
    \cup [status : {"ok"}, transferring : {"missing", "notArray"}, items : {<<>>}]
    \cup [status : {"ok"}, transferring : {"array"}, items : EntriesUpTo(MaxTransfers)]

\* The counters of diskCache: numbers, or of another type.
Counters == 0 .. MaxCount \cup {NotANumber}

\* The answer to POST /vfs/stats: likewise, with diskCache missing or
\* holding three counters.
VfsAnswers ==
    [status : {"failed", "timeout", "nodata"}, diskCache : {FALSE},
     erroredFiles : {0}, uploadsInProgress : {0}, uploadsQueued : {0}]
    \cup [status : {"ok"}, diskCache : {FALSE},
          erroredFiles : {0}, uploadsInProgress : {0}, uploadsQueued : {0}]
    \cup [status : {"ok"}, diskCache : {TRUE},
          erroredFiles : Counters, uploadsInProgress : Counters, uploadsQueued : Counters]

StatsInputs == [active : BOOLEAN, core : CoreAnswers, vfs : VfsAnswers]

\* Before the first getStats().
NoQuery == [active |-> FALSE,
            core |-> [status |-> "failed", transferring |-> "missing", items |-> <<>>],
            vfs |-> [status |-> "failed", diskCache |-> FALSE,
                     erroredFiles |-> 0, uploadsInProgress |-> 0, uploadsQueued |-> 0]]

\* The zeroed result.
ZeroStats == [uploadsInProgress |-> 0, uploadsQueued |-> 0, erroredFiles |-> 0, transfers |-> <<>>]

\* What a call of getStats() comes to: it returned r or threw, having
\* queried the engine or not.
Returned(r, q) == [called |-> TRUE, threw |-> FALSE, queried |-> q, r |-> r]

Threw == [called |-> TRUE, threw |-> TRUE, queried |-> TRUE, r |-> ZeroStats]

NoStats == [called |-> FALSE, threw |-> FALSE, queried |-> FALSE, r |-> ZeroStats]

\* transfer => ({name, size, speed}) with the defaults for fields of
\* another type.
NormalizeTransfer(t) ==
    [null |-> FALSE,
     name |-> IF t.name # NotAString THEN t.name ELSE "",
     size |-> IF t.size # NotANumber THEN t.size ELSE 0,
     speed |-> IF t.speed # NotANumber THEN t.speed ELSE 0]

\* The body of the try block: Promise.all rejects when a request fails or
\* times out; reading a property of a missing body or of a null entry is a
\* TypeError.
StatsTryBody(in) ==
    IF in.core.status # "ok" \/ in.vfs.status # "ok"
    THEN Threw
    ELSE IF \/ ~in.vfs.diskCache
            \/ in.vfs.erroredFiles = NotANumber
            \/ in.vfs.uploadsInProgress = NotANumber
            \/ in.vfs.uploadsQueued = NotANumber
    THEN Returned([ZeroStats EXCEPT !.transfers =
                      IF in.core.transferring # "array" THEN <<>> ELSE in.core.items], TRUE)
    ELSE IF in.core.transferring = "array" /\ \E i \in DOMAIN in.core.items : in.core.items[i].null
    THEN Threw
    ELSE Returned([uploadsInProgress |-> in.vfs.uploadsInProgress,
                   uploadsQueued |-> in.vfs.uploadsQueued,
                   erroredFiles |-> in.vfs.erroredFiles,
                   transfers |-> IF in.core.transferring # "array"
                                 THEN <<>>
                                 ELSE [i \in DOMAIN in.core.items |->
                                          NormalizeTransfer(in.core.items[i])]], TRUE)

\* As getStats, without the catch block.
getStatsNoCatch(in) ==
    IF ~in.active
    THEN Returned(ZeroStats, FALSE)
    ELSE StatsTryBody(in)

\* getStats(): the zeroed result at once when not active; else the try
\* block, and the zeroed result when it throws.
getStats(in) ==
    IF ~in.active
    THEN Returned(ZeroStats, FALSE)
    ELSE IF StatsTryBody(in).threw
    THEN Returned(ZeroStats, TRUE)
    ELSE StatsTryBody(in)

\* ------------------------------------------------- isMountActuallyActive
\* fs.access of the mount path resolves or rejects.
MountAccess == {"ok", "rejected"}

\* No response to the health check: the request fails or is aborted after
\* 5 s.
NoResponse == 0

EXPECTED_STATUS == 401

\* What the GET on the endpoint gives: a status code or no response.
HttpAnswers == {200, EXPECTED_STATUS, 404, 500} \cup {NoResponse}

\* Remotes an engine may list.
Remotes == {"Filen:", "Other:"}

\* The answer to POST /vfs/list: the request fails or times out after 5 s;
\* or it answers without a body; or with a body that has no vfses; or with
\* a list of remotes.
VfsListAnswers ==
    [status : {"failed", "nodata"}, listed : {FALSE}, vfses : {{}}]
    \cup [status : {"ok"}, listed : {FALSE}, vfses : {{}}]
    \cup [status : {"ok"}, listed : {TRUE}, vfses : SUBSET Remotes]

ProbeInputs == [handle : BOOLEAN, access : MountAccess, http : HttpAnswers, vfs : VfsListAnswers]

\* Before the first call.
NoCheck == [handle |-> FALSE, access |-> "rejected", http |-> NoResponse,
            vfs |-> [status |-> "failed", listed |-> FALSE, vfses |-> {}]]

ProbeReturned(b) == [called |-> TRUE, threw |-> FALSE, r |-> b]

ProbeThrew == [called |-> TRUE, threw |-> TRUE, r |-> FALSE]

NoAnswer == [called |-> FALSE, threw |-> FALSE, r |-> FALSE]

\* checkIfMountExists: true when fs.access resolves, false when it rejects.
checkIfMountExists(access) == access = "ok"

\* httpHealthCheck: true when a response came with the expected status
\* (every status is accepted by validateStatus), false on any error.
httpHealthCheck(answer, expectedStatusCode) ==
    IF answer = NoResponse THEN FALSE ELSE answer = expectedStatusCode

isWebDAVOnline(answer) == httpHealthCheck(answer, EXPECTED_STATUS)

\* vfsList: response.data.vfses, which is undefined (listed = FALSE) when
\* the body has none; the empty list when the request fails or reading
\* vfses of a missing body throws.
vfsList(answer) ==
    IF answer.status # "ok"
    THEN [listed |-> TRUE, vfses |-> {}]
    ELSE [listed |-> answer.listed, vfses |-> answer.vfses]

\* The try block of isMountActuallyActive: the three checks, then false
\* unless the mount exists and the endpoint is online, then
\* vfsList.includes("Filen:"), which throws on undefined.
ProbeTryBody(in) ==
    IF ~checkIfMountExists(in.access) \/ ~isWebDAVOnline(in.http)
    THEN ProbeReturned(FALSE)
    ELSE IF ~vfsList(in.vfs).listed
    THEN ProbeThrew
    ELSE ProbeReturned("Filen:" \in vfsList(in.vfs).vfses)

\* As isMountActuallyActive, with the catch left out.
isMountActuallyActiveNoCatch(in) ==
    IF ~in.handle
    THEN ProbeReturned(FALSE)
    ELSE ProbeTryBody(in)

\* isMountActuallyActive: false at once without a handle; else the try
\* block, and false when it throws.
isMountActuallyActive(in) ==
    IF ~in.handle
    THEN ProbeReturned(FALSE)
    ELSE IF ProbeTryBody(in).threw
    THEN ProbeReturned(FALSE)
    ELSE ProbeTryBody(in)

\* ------------------------------------------------------------------- Init
\* ------------------------------------------------------- the cache size
\* 1024 * 1024 * 1024 bytes, counted in units of 128 MiB.
GiB == 8

\* What fs.statfs gives for the cache directory: an error, or the block
\* size (in units of 128 MiB) and the number of blocks available.
StatfsAnswers ==
    [err : {TRUE}, bsize : {1}, bavail : {0}]
    \cup [err : {FALSE}, bsize : {1, 2}, bavail : 0 .. MaxBlocks]

\* Before the first rcloneArgs().
NoStatfs == [err |-> TRUE, bsize |-> 1, bavail |-> 0]

NoArgs == [called |-> FALSE, cacheSize |-> 0]

\* getAvailableCacheSize: 12884901888 bytes when statfs fails, else
\* bavail * bsize.
getAvailableCacheSize(stats) ==
    IF stats.err THEN 12 * GiB ELSE stats.bavail * stats.bsize

osDiskBufferGib == 5

\* rcloneArgs: the value of --vfs-cache-max-size, in GiB.
cacheSize(availableCacheSize) ==
    LET availableCacheSizeGib == (availableCacheSize \div GiB) - osDiskBufferGib
    IN  IF availableCacheSizeGib > 0 THEN availableCacheSizeGib ELSE osDiskBufferGib

DeadProc == [alive |-> FALSE, lis |-> FALSE, owner |-> NoOne]

Init ==
    /\ active = FALSE
    /\ rcloneProcess = 0
    /\ webdavServer = 0
    /\ webdavPort = 0
    /\ rclonePort = 0
    /\ monitorProcess = FALSE
    /\ proc = [p \in Procs |-> DeadProc]
    /\ srv = [s \in Srvs |-> FALSE]
    /\ startMutex = FreeMutex
    /\ stopMutex = FreeMutex
    /\ upc = [u \in Users |-> "idle"]
    /\ sf = [f \in Frames |-> "idle"]
    /\ stgt = [f \in Frames |-> 0]
    /\ sclean = [u \in Users |-> FALSE]
    /\ prom = [u \in Users |-> "none"]
    /\ iv = [u \in Users |-> FALSE]
    /\ to = [u \in Users |-> FALSE]
    /\ ivp = [u \in Users |-> FALSE]
    /\ tmo = [u \in Users |-> "off"]
    /\ mpc = "sleep"
    /\ monitors = 1
    /\ quiet = FALSE
    /\ calls = 0
    /\ ev = NoEv
    /\ webdavUsername = 0
    /\ webdavPassword = 0
    /\ issued = 0
    /\ endpointUser = [s \in Srvs |-> <<0, 0>>]
    /\ rcloneConfig = NoConfig
    /\ alloc = {}
    /\ watchdogs = 0
    /\ rcloneBinaryPath = NoPath
    /\ getRCloneBinaryMutex = FreeMutex
    /\ cpc = [c \in Callers |-> "idle"]
    /\ cret = [c \in Callers |-> "none"]
    /\ tmp = [c \in Callers |-> NoFile]
    /\ dest = NoFile
    /\ executable = FALSE
    /\ downloads = 0
    /\ statsIn = NoQuery
    /\ statsOut = NoStats
    /\ probeIn = NoCheck
    /\ probeOut = NoAnswer
    /\ cacheIn = NoStatfs
    /\ cacheOut = NoArgs

\* ------------------------------------------------------------ environment
\* httpHealthCheck against 127.0.0.1:webdavPort expecting 401: true only
\* when the endpoint listens there; a timeout makes it false anyway.
WebDAVOnline == IF webdavPort # 0 /\ srv[webdavPort] THEN {TRUE, FALSE} ELSE {FALSE}

\* Outcome of the three concurrent checks of isMountActuallyActive once a
\* handle was seen: mount accessible, endpoint answers, engine lists Filen:.
ProbeOutcomes ==
    IF /\ rclonePort # 0
       /\ proc[rclonePort].alive
       /\ webdavPort # 0
       /\ srv[webdavPort]
    THEN {TRUE, FALSE}
    ELSE {FALSE}

\* isMountActuallyActive when called now: false at once without a handle,
\* else the outcome of the three checks.
ProbeAnswers == IF rcloneProcess = 0 THEN {FALSE} ELSE ProbeOutcomes

\* ------------------------------------------------------------------ stop()
StopBody == {"c2", "hc", "ws"}

StartInProgress == \E u \in Users : upc[u] \notin {"idle", "stopping"}

Stopped == ~active /\ rcloneProcess = 0 /\ webdavServer = 0

UserOf(f) == IF f = "t1" THEN "u1" ELSE "u2"

\* The promise of user u settles: its handlers' closures have no effect
\* from now on, and a probe of its interval still in flight is ignored.
Unown(u) == [p \in Procs |-> IF proc[p].owner = u THEN [proc[p] EXCEPT !.owner = NoOne] ELSE proc[p]]

\* resolve() or reject() of user u's readiness promise; a no-op once the
\* promise has settled.
Settle(u, how) ==
    IF prom[u] = "pending"
    THEN /\ prom' = [prom EXCEPT ![u] = how]
         /\ ivp' = [ivp EXCEPT ![u] = FALSE]
         /\ proc' = Unown(u)
    ELSE UNCHANGED <<prom, ivp, proc>>

\* As StartFail, with the release of the start lock left out of finally.
StartFailKeepsLock(u, at) ==
    /\ upc' = [upc EXCEPT ![u] = "idle"]
    /\ startMutex' = startMutex
    /\ ev' = [Ev("startRet", u, FALSE, at) EXCEPT !.alloc = alloc]

\* catch/finally of start(): the error is logged and rethrown, the start
\* lock released.  Nothing else is undone here.  The observation keeps
\* what this start() had allocated (a) when it threw.
StartThrow(u, at, a, m) ==
    /\ upc' = [upc EXCEPT ![u] = "idle"]
    /\ startMutex' = Release(startMutex)
    /\ ev' = [Ev("startRet", u, FALSE, at) EXCEPT !.alloc = a, !.m = m]

StartFailWith(u, at, a) == StartThrow(u, at, a, NoTarget)

StartFail(u, at) == StartFailWith(u, at, alloc)

\* this.stop() is entered by frame f: acquire() takes the lock at once when
\* it is free and queues the caller otherwise.
EnterStop(f) ==
    /\ sf[f] = "idle"
    /\ sf' = [sf EXCEPT ![f] = "acq"]
    /\ stopMutex' = Acquire(stopMutex, f)

\* As Return, with the catch left out of monitor(): an error of stop()
\* leaves the loop.
ReturnMonitorRethrows(f, ok, at) ==
    /\ sf' = [sf EXCEPT ![f] = "idle"]
    /\ CASE f = "mon" ->
              /\ mpc' = IF ok THEN "sleep" ELSE "thrown"
              /\ monitors' = IF ok THEN monitors ELSE monitors - 1
              /\ ev' = Ev("stopRet", f, ok, at)
              /\ UNCHANGED <<upc, sclean, startMutex, tmo, prom, ivp, proc>>
         [] f \in {"t1", "t2"} ->
              /\ tmo' = [tmo EXCEPT ![UserOf(f)] = "off"]
              /\ Settle(UserOf(f), IF ok THEN "timeout" ELSE "stopError")
              /\ ev' = Ev("stopRet", f, ok, at)
              /\ UNCHANGED <<upc, sclean, startMutex, mpc, monitors>>
         [] f \in Users /\ upc[f] = "stopping" ->
              /\ upc' = [upc EXCEPT ![f] = "idle"]
              /\ ev' = Ev("stopRet", f, ok, at)
              /\ UNCHANGED <<sclean, startMutex, mpc, monitors, tmo, prom, ivp, proc>>
         [] OTHER ->
              /\ IF ok
                 THEN /\ upc' = [upc EXCEPT ![f] = "check"]
                      /\ startMutex' = startMutex
                      /\ ev' = Ev("stopRet", f, ok, at)
                 ELSE StartFail(f, "stop")
              /\ UNCHANGED <<sclean, mpc, monitors, tmo, prom, ivp, proc>>

\* stop() of frame f returned (ok) or threw, and the code awaiting it goes
\* on: a user's stop() call is over; start() continues with its checks or
\* fails; the monitor logs and sleeps; the timeout callback rejects with
\* the timeout error ("timeout") or with the error of stop() ("stopError").
Return(f, ok, at) ==
    /\ sf' = [sf EXCEPT ![f] = "idle"]
    /\ CASE f = "mon" ->
              /\ mpc' = "sleep"
              /\ monitors' = monitors
              /\ ev' = Ev("stopRet", f, ok, at)
              /\ UNCHANGED <<upc, sclean, startMutex, tmo, prom, ivp, proc>>
         [] f \in {"t1", "t2"} ->
              /\ tmo' = [tmo EXCEPT ![UserOf(f)] = "off"]
              /\ Settle(UserOf(f), IF ok THEN "timeout" ELSE "stopError")
              /\ ev' = Ev("stopRet", f, ok, at)
              /\ UNCHANGED <<upc, sclean, startMutex, mpc, monitors>>
         [] f \in Users /\ upc[f] = "stopping" ->
              /\ upc' = [upc EXCEPT ![f] = "idle"]
              /\ ev' = Ev("stopRet", f, ok, at)
              /\ UNCHANGED <<sclean, startMutex, mpc, monitors, tmo, prom, ivp, proc>>
         [] OTHER ->
              /\ IF ok
                 THEN /\ upc' = [upc EXCEPT ![f] = "check"]
                      /\ startMutex' = startMutex
                      /\ ev' = Ev("stopRet", f, ok, at)
                 ELSE StartFail(f, "stop")
              /\ UNCHANGED <<sclean, mpc, monitors, tmo, prom, ivp, proc>>

\* As StopThrow, with the release of the stop lock left out of finally.
StopThrowKeepsLock(f, at) ==
    /\ stopMutex' = stopMutex
    /\ UNCHANGED <<active, rcloneProcess, webdavServer, quiet,
                   auxVars>>
    /\ Return(f, FALSE, at)

\* catch/finally of stop(): the error is rethrown, the lock released, the
\* fields are left as they are.
StopThrow(f, at) ==
    /\ stopMutex' = Release(stopMutex)
    /\ UNCHANGED <<active, rcloneProcess, webdavServer, quiet,
                   auxVars>>
    /\ Return(f, FALSE, at)

\* As StopFinish, with the assignment this.rcloneProcess = null left out.
StopFinishKeepsHandle(f, at) ==
    /\ webdavServer' = 0
    /\ rcloneProcess' = rcloneProcess
    /\ active' = FALSE
    /\ stopMutex' = Release(stopMutex)
    /\ quiet' = ~StartInProgress
    /\ Return(f, TRUE, at)

\* The last three assignments of stop(), then finally.
StopFinish(f, at) ==
    /\ webdavServer' = 0
    /\ rcloneProcess' = 0
    /\ active' = FALSE
    /\ stopMutex' = Release(stopMutex)
    /\ quiet' = ~StartInProgress
    /\ Return(f, TRUE, at)

\* As KilledByName, with a kill by name that matches no process.
KilledByNameNoMatch(pr) == pr

\* killProcessByName (pgrep, kill -9) ends every engine process.
KilledByName(pr) == [p \in Procs |-> [pr[p] EXCEPT !.alive = FALSE]]

\* killProcessByName(RCLONE_BINARY_NAME) as cleanupRClone calls it.  Every
\* engine process ends.  On linux and darwin the pids come from `pgrep -f`,
\* which matches whole command lines, and the watchdog was spawned with
\* RCLONE_BINARY_NAME among its arguments: it is killed as well and its
\* 'exit' handler clears the handle.  On win32 taskkill /IM matches image
\* names, which leaves the watchdog alone.
KillProcessByName ==
    /\ proc' = KilledByName(proc)
    /\ \/ /\ monitorProcess' = monitorProcess
          /\ watchdogs' = watchdogs
       \/ /\ monitorProcess
          /\ monitorProcess' = FALSE
          /\ watchdogs' = watchdogs - 1

\* As Cleanup1, with the test of the handle left out of cleanupRClone: the
\* wait and the read of the pid follow without a handle too.
Cleanup1NoHandleTest(f) ==
    /\ sf[f] = "acq"
    /\ stopMutex.holder = f
    /\ proc' = IF rcloneProcess # 0
               THEN [proc EXCEPT ![rcloneProcess] = [@ EXCEPT !.lis = FALSE, !.owner = NoOne]]
               ELSE proc
    /\ sf' = [sf EXCEPT ![f] = "c2"]
    /\ ev' = NoEv
    /\ UNCHANGED <<active, rcloneProcess, webdavServer, webdavPort, rclonePort,
                   monitorProcess, srv, startMutex, stopMutex, upc, stgt, sclean,
                   prom, iv, to, ivp, tmo, mpc, monitors, quiet, calls,
                   credVars, alloc, watchdogs,
                   auxVars>>

\* As Cleanup1, with stop() going on without awaiting the stop lock.
Cleanup1NoLock(f) ==
    /\ sf[f] = "acq"
    /\ IF rcloneProcess # 0
       THEN /\ proc' = [proc EXCEPT ![rcloneProcess] = [@ EXCEPT !.lis = FALSE, !.owner = NoOne]]
            /\ sf' = [sf EXCEPT ![f] = "c2"]
            /\ UNCHANGED <<monitorProcess, watchdogs>>
       ELSE /\ KillProcessByName
            /\ sf' = [sf EXCEPT ![f] = "hc"]
    /\ ev' = NoEv
    /\ UNCHANGED <<active, rcloneProcess, webdavServer, webdavPort, rclonePort,
                   srv, startMutex, stopMutex, upc, stgt, sclean,
                   prom, iv, to, ivp, tmo, mpc, monitors, quiet, calls,
                   credVars, alloc,
                   auxVars>>

\* As Cleanup1, with stop() returning at once when the session is not active.
Cleanup1OnlyWhenActive(f) ==
    /\ sf[f] = "acq"
    /\ stopMutex.holder = f
    /\ IF ~active
       THEN /\ stopMutex' = Release(stopMutex)
            /\ Return(f, TRUE, "acq")
            /\ UNCHANGED <<active, rcloneProcess, webdavServer, quiet,
                           monitorProcess, watchdogs>>
       ELSE /\ IF rcloneProcess # 0
               THEN /\ proc' = [proc EXCEPT ![rcloneProcess] = [@ EXCEPT !.lis = FALSE, !.owner = NoOne]]
                    /\ sf' = [sf EXCEPT ![f] = "c2"]
                    /\ UNCHANGED <<monitorProcess, watchdogs>>
               ELSE /\ KillProcessByName
                    /\ sf' = [sf EXCEPT ![f] = "hc"]
            /\ ev' = NoEv
            /\ UNCHANGED <<active, rcloneProcess, webdavServer, stopMutex, quiet,
                           upc, sclean, startMutex, mpc, monitors, tmo, prom, ivp>>
    /\ UNCHANGED <<webdavPort, rclonePort, srv, stgt, iv, to, calls,
                   credVars, alloc,
                   auxVars>>

\* await this.stopMutex.acquire() resumes and cleanupRClone begins.  With a
\* handle: detach its listeners and SIGTERM it, then wait 1 s (the process
\* ends during the wait or not).  Without one: kill by name and
\* force-unmount, errors swallowed.
Cleanup1(f) ==
    /\ sf[f] = "acq"
    /\ stopMutex.holder = f
    /\ IF rcloneProcess # 0
       THEN /\ proc' = [proc EXCEPT ![rcloneProcess] = [@ EXCEPT !.lis = FALSE, !.owner = NoOne]]
            /\ sf' = [sf EXCEPT ![f] = "c2"]
            /\ UNCHANGED <<monitorProcess, watchdogs>>
       ELSE /\ KillProcessByName
            /\ sf' = [sf EXCEPT ![f] = "hc"]
    /\ ev' = NoEv
    /\ UNCHANGED <<active, rcloneProcess, webdavServer, webdavPort, rclonePort,
                   srv, startMutex, stopMutex, upc, stgt, sclean,
                   prom, iv, to, ivp, tmo, mpc, monitors, quiet, calls,
                   credVars, alloc,
                   auxVars>>

\* cleanupRClone after the wait: this.rcloneProcess.pid is read without a
\* null check; with a handle, kill -9 by pid, then kill by name and
\* force-unmount, errors swallowed.
Cleanup2(f) ==
    /\ sf[f] = "c2"
    /\ IF rcloneProcess = 0
       THEN /\ StopThrow(f, "c2")
            /\ UNCHANGED <<monitorProcess, watchdogs>>
       ELSE /\ KillProcessByName
            /\ sf' = [sf EXCEPT ![f] = "hc"]
            /\ ev' = NoEv
            /\ UNCHANGED <<active, rcloneProcess, webdavServer, stopMutex, quiet,
                           upc, sclean, startMutex, mpc, monitors, tmo, prom, ivp>>
    /\ UNCHANGED <<webdavPort, rclonePort, srv, stgt, iv, to, calls,
                   credVars, alloc,
                   auxVars>>

\* isWebDAVOnline answers; the endpoint is stopped only when it answered
\* and a started server is referenced.
HealthCheck(f) ==
    /\ sf[f] = "hc"
    /\ \E online \in WebDAVOnline :
         IF online /\ webdavServer # 0 /\ srv[webdavServer]
         THEN /\ sf' = [sf EXCEPT ![f] = "ws"]
              /\ stgt' = [stgt EXCEPT ![f] = webdavServer]
              /\ ev' = NoEv
              /\ UNCHANGED <<active, rcloneProcess, webdavServer, stopMutex, quiet,
                             upc, sclean, startMutex, mpc, monitors, tmo, prom, ivp, proc>>
         ELSE /\ StopFinish(f, "hc")
              /\ UNCHANGED stgt
    /\ UNCHANGED <<webdavPort, rclonePort, monitorProcess, srv, iv, to, calls,
                   credVars, alloc, watchdogs,
                   auxVars>>

\* await this.webdavServer.stop(true) returns or throws.
WebdavStopped(f) ==
    /\ sf[f] = "ws"
    /\ stgt' = [stgt EXCEPT ![f] = 0]
    /\ \/ /\ srv' = [srv EXCEPT ![stgt[f]] = FALSE]
          /\ StopFinish(f, "ws")
       \/ /\ srv' = srv
          /\ StopThrow(f, "ws")
    /\ UNCHANGED <<webdavPort, rclonePort, monitorProcess, iv, to, calls,
                   credVars, alloc, watchdogs,
                   auxVars>>

StopStep(f) ==
    \/ Cleanup1(f)
    \/ Cleanup2(f)
    \/ HealthCheck(f)
    \/ WebdavStopped(f)

\* ------------------------------------------------------------ user stop()
\* The two callers are interchangeable: the one that makes the first call is
\* named u1.
UserStopCall(u) ==
    /\ upc[u] = "idle"
    /\ calls = 0 => u = "u1"
    /\ calls < MaxCalls
    /\ calls' = calls + 1
    /\ upc' = [upc EXCEPT ![u] = "stopping"]
    /\ sclean' = [sclean EXCEPT ![u] = Stopped /\ ~StartInProgress]
    /\ EnterStop(u)
    /\ ev' = NoEv
    /\ UNCHANGED <<active, rcloneProcess, webdavServer, webdavPort, rclonePort,
                   monitorProcess, proc, srv, startMutex, stgt,
                   prom, iv, to, ivp, tmo, mpc, monitors, quiet,
                   credVars, alloc, watchdogs,
                   auxVars>>

\* ----------------------------------------------------------------- start()
FreeSrv(s) == ~srv[s] /\ webdavServer # s

FreeProc(p) == ~proc[p].alive /\ ~proc[p].lis /\ rcloneProcess # p

\* findFreePort and spawn return a port and a process object that are not
\* in use; which one is immaterial, so the lowest free slot stands for it.
NewSrv(s) == FreeSrv(s) /\ \A t \in Srvs : FreeSrv(t) => s <= t

NewProc(p) == FreeProc(p) /\ \A q \in Procs : FreeProc(q) => p <= q

\* start() is called: acquire() takes the start lock at once when it is
\* free and queues the caller otherwise.
StartCallWithin(u, n) ==
    /\ upc[u] = "idle"
    /\ calls = 0 => u = "u1"
    /\ tmo[u] = "off"
    /\ calls < n
    /\ calls' = calls + 1
    /\ upc' = [upc EXCEPT ![u] = "sacq"]
    /\ startMutex' = Acquire(startMutex, u)
    /\ sclean' = [sclean EXCEPT ![u] = FALSE]
    /\ quiet' = FALSE
    /\ ev' = NoEv
    /\ UNCHANGED <<active, rcloneProcess, webdavServer, webdavPort, rclonePort,
                   monitorProcess, proc, srv, stopMutex, sf, stgt,
                   prom, iv, to, ivp, tmo, mpc, monitors,
                   credVars, alloc, watchdogs,
                   auxVars>>

StartCall(u) == StartCallWithin(u, MaxCalls)

\* One more start() once the users have made MaxCalls calls.
OneMoreStart(u) ==
    /\ calls = MaxCalls
    /\ StartCallWithin(u, MaxCalls + 1)

\* await this.startMutex.acquire() resumes; start() calls this.stop().
StartAcquired(u) ==
    /\ upc[u] = "sacq"
    /\ startMutex.holder = u
    /\ upc' = [upc EXCEPT ![u] = "s_stop"]
    /\ EnterStop(u)
    /\ alloc' = {}
    /\ ev' = NoEv
    /\ UNCHANGED <<active, rcloneProcess, webdavServer, webdavPort, rclonePort,
                   monitorProcess, proc, srv, startMutex, stgt, sclean,
                   prom, iv, to, ivp, tmo, mpc, monitors, quiet, calls,
                   credVars, watchdogs,
                   auxVars>>

\* Mount targets: the driver installed or not; a drive letter that
\* getAvailableDriveLetters lists or not; a path with or without '$', one
\* of MountPaths, that exists or not, is a readable and writable plain
\* directory or not, has entries or not.
Targets ==
    {[NoTarget EXCEPT !.platform = "win32", !.driver = d, !.letterFree = l] :
        d \in BOOLEAN, l \in BOOLEAN}
    \cup {m \in [platform : {"posix"}, driver : BOOLEAN, dollar : BOOLEAN, path : MountPaths,
                 exists : BOOLEAN, dir : BOOLEAN, empty : BOOLEAN, letterFree : {TRUE},
                 cached : {FALSE}, file : {TRUE}, hash : {TRUE}] :
             (m.dir => m.exists) /\ (m.empty => m.dir)}

isUnixMountPointValid(m) == m.exists /\ m.dir

isUnixMountPointEmpty(m) == m.exists /\ m.dir /\ m.empty

\* As MountPointError, with the isUnixMountPointValid test (1014-1016)
\* left out.
MountPointErrorNoValidTest(m) ==
    IF m.platform = "win32"
    THEN IF ~m.letterFree THEN "letter" ELSE "none"
    ELSE IF m.dollar THEN "dollar"
    ELSE IF ~StartsWithHome(m.path) THEN "home"
    ELSE IF ~isUnixMountPointEmpty(m) THEN "empty"
    ELSE "none"

\* The validation of start(), in the order of its tests; "none" when the
\* target passes all of them.
MountPointError(m) ==
    IF m.platform = "win32"
    THEN IF ~m.letterFree THEN "letter" ELSE "none"
    ELSE IF m.dollar THEN "dollar"
    ELSE IF ~StartsWithHome(m.path) THEN "home"
    ELSE IF ~isUnixMountPointValid(m) THEN "exist"
    ELSE IF ~isUnixMountPointEmpty(m) THEN "empty"
    ELSE "none"

\* Dependency installation (may throw), the mount driver checks and the
\* validation of the drive letter or mount point.
Check(u) ==
    /\ upc[u] = "check"
    /\ \/ StartFail(u, "deps")
       \/ \E m \in Targets :
            IF ~m.driver
            THEN StartThrow(u, "driver", alloc, m)
            ELSE IF MountPointError(m) # "none"
            THEN StartThrow(u, MountPointError(m), alloc, m)
            ELSE /\ upc' = [upc EXCEPT ![u] = "port"]
                 /\ startMutex' = startMutex
                 /\ ev' = [Ev("checked", u, TRUE, "check") EXCEPT !.m = m]
    /\ UNCHANGED <<active, rcloneProcess, webdavServer, webdavPort, rclonePort,
                   monitorProcess, proc, srv, stopMutex, sf, stgt, sclean,
                   prom, iv, to, ivp, tmo, mpc, monitors, quiet, calls,
                   credVars, alloc, watchdogs,
                   auxVars>>

\* Port(u) without lines 1030-1031: the fields keep the values they had.
PortKeepsCredentials(u) ==
    /\ upc[u] = "port"
    /\ \/ \E s \in Srvs :
            /\ NewSrv(s)
            /\ webdavPort' = s
            /\ UNCHANGED <<webdavUsername, webdavPassword, issued>>
            /\ webdavServer' = s
            /\ endpointUser' = [endpointUser EXCEPT ![s] = <<webdavUsername, webdavPassword>>]
            /\ alloc' = alloc \cup {"port", "creds"}
            /\ upc' = [upc EXCEPT ![u] = "wstart"]
            /\ startMutex' = startMutex
            /\ ev' = NoEv
       \/ /\ StartFail(u, "port")
          /\ UNCHANGED <<webdavPort, webdavServer, webdavUsername, webdavPassword,
                         issued, endpointUser, alloc>>
    /\ UNCHANGED <<active, rcloneProcess, rclonePort, monitorProcess, proc, srv,
                   stopMutex, sf, stgt, sclean, prom, iv, to, ivp, tmo, mpc, monitors,
                   quiet, calls,
                   rcloneConfig, watchdogs,
                   auxVars>>

\* findFreePort answers; port, credentials and the server object are set
\* and the server's start() is called.
Port(u) ==
    /\ upc[u] = "port"
    /\ \/ \E s \in Srvs :
            /\ NewSrv(s)
            /\ webdavPort' = s
            /\ webdavUsername' = generateRandomString(issued)
            /\ webdavPassword' = generateRandomString(issued + 1)
            /\ issued' = issued + 2
            /\ webdavServer' = s
            /\ endpointUser' = [endpointUser EXCEPT ![s] =
                                  <<generateRandomString(issued), generateRandomString(issued + 1)>>]
            /\ alloc' = alloc \cup {"port", "creds"}
            /\ upc' = [upc EXCEPT ![u] = "wstart"]
            /\ startMutex' = startMutex
            /\ ev' = NoEv
       \/ /\ StartFail(u, "port")
          /\ UNCHANGED <<webdavPort, webdavServer, webdavUsername, webdavPassword,
                         issued, endpointUser, alloc>>
    /\ UNCHANGED <<active, rcloneProcess, rclonePort, monitorProcess, proc, srv,
                   stopMutex, sf, stgt, sclean, prom, iv, to, ivp, tmo, mpc, monitors,
                   quiet, calls,
                   rcloneConfig, watchdogs,
                   auxVars>>

\* await this.webdavServer.start() returns or throws.
WStart(u) ==
    /\ upc[u] = "wstart"
    /\ \/ /\ srv' = [srv EXCEPT ![webdavPort] = TRUE]
          /\ alloc' = alloc \cup {"endpoint"}
          /\ upc' = [upc EXCEPT ![u] = "config"]
          /\ startMutex' = startMutex
          /\ ev' = NoEv
       \/ /\ srv' = srv
          /\ alloc' = {}
          /\ StartFail(u, "wstart")
    /\ UNCHANGED <<active, rcloneProcess, webdavServer, webdavPort, rclonePort,
                   monitorProcess, proc, stopMutex, sf, stgt, sclean,
                   prom, iv, to, ivp, tmo, mpc, monitors, quiet, calls,
                   credVars, watchdogs,
                   auxVars>>

\* What getRCloneBinaryPath may find: the path cached in rcloneBinaryPath
\* or not, the file on disk or not, an entry in BINARY_HASHES or not.
BinaryStates ==
    {[NoTarget EXCEPT !.cached = c, !.file = f, !.hash = h] :
        c \in BOOLEAN, f \in BOOLEAN, h \in BOOLEAN}

\* As getRCloneBinaryPath, with the test of BINARY_HASHES (453-455) left
\* out.
getRCloneBinaryPathNoHashTest(b) ==
    IF b.cached THEN "path"
    ELSE IF b.file THEN "path"
    ELSE "download"

\* getRCloneBinaryPath: the cached path; else the path of the file on disk;
\* else the missing-hash error; else the download.
getRCloneBinaryPath(b) ==
    IF b.cached THEN "path"
    ELSE IF b.file THEN "path"
    ELSE IF ~b.hash THEN "hash"
    ELSE "download"

\* writeRCloneConfig with the username, the password and the endpoint of
\* this start(): the password is obscured with the engine binary (whose
\* provisioning may throw, as may the download, the obscure command and
\* the write) and the file written atomically.  Then spawnRClone up to the
\* watchdog: the paths, the binary and config checks, then the cache
\* directory is removed and created again ("cache" in alloc).
Config(u) ==
    /\ upc[u] = "config"
    /\ \E b \in BinaryStates :
         \/ /\ getRCloneBinaryPath(b) = "hash"
            /\ StartThrow(u, "hash", alloc, b)
            /\ rcloneConfig' = rcloneConfig
            /\ alloc' = {}
         \/ /\ getRCloneBinaryPath(b) # "hash"
            /\ StartFail(u, "config")
            /\ rcloneConfig' = rcloneConfig
            /\ alloc' = {}
         \/ /\ getRCloneBinaryPath(b) # "hash"
            /\ b.file \/ getRCloneBinaryPath(b) = "download"
            /\ rcloneConfig' = writeRCloneConfig(webdavPort, webdavUsername, webdavPassword)
            /\ \/ /\ upc' = [upc EXCEPT ![u] = "wd"]
                  /\ alloc' = alloc \cup {"config", "cache"}
                  /\ startMutex' = startMutex
                  /\ ev' = [Ev("configured", u, TRUE, "config") EXCEPT !.m = b]
               \/ /\ StartFailWith(u, "spre", alloc \cup {"config"})
                  /\ alloc' = {}
    /\ UNCHANGED <<active, rcloneProcess, webdavServer, webdavPort, rclonePort,
                   monitorProcess, proc, srv, stopMutex, sf, stgt, sclean,
                   prom, iv, to, ivp, tmo, mpc, monitors, quiet, calls,
                   webdavUsername, webdavPassword, issued, endpointUser, watchdogs,
                   auxVars>>

\* spawnRClone: the watchdog is spawned only when no handle is tracked.
Watchdog(u) ==
    /\ upc[u] = "wd"
    /\ IF monitorProcess
       THEN /\ upc' = [upc EXCEPT ![u] = "spawn"]
            /\ monitorProcess' = monitorProcess
            /\ watchdogs' = watchdogs
       ELSE /\ upc' = [upc EXCEPT ![u] = "wdw"]
            /\ monitorProcess' = TRUE
            /\ watchdogs' = watchdogs + 1
    /\ alloc' = alloc \cup {"watchdog"}
    /\ ev' = NoEv
    /\ UNCHANGED <<active, rcloneProcess, webdavServer, webdavPort, rclonePort,
                   proc, srv, startMutex, stopMutex, sf, stgt, sclean,
                   prom, iv, to, ivp, tmo, mpc, monitors, quiet, calls,
                   credVars,
                   auxVars>>

\* The watchdog survived its first second (errored is false, the handle is
\* still set), or it emitted 'error'/'exit', in this second or before.
WatchdogUp(u) ==
    /\ upc[u] = "wdw"
    /\ \/ /\ monitorProcess
          /\ upc' = [upc EXCEPT ![u] = "spawn"]
          /\ monitorProcess' = monitorProcess
          /\ watchdogs' = watchdogs
          /\ alloc' = alloc
          /\ startMutex' = startMutex
          /\ ev' = NoEv
       \/ /\ monitorProcess' = FALSE
          /\ watchdogs' = 0
          /\ alloc' = {}
          /\ StartFail(u, "wdw")
    /\ UNCHANGED <<active, rcloneProcess, webdavServer, webdavPort, rclonePort,
                   proc, srv, stopMutex, sf, stgt, sclean,
                   prom, iv, to, ivp, tmo, mpc, monitors, quiet, calls,
                   credVars,
                   auxVars>>

\* findFreePort for the remote-control interface and rcloneArgs, then the
\* executor of the readiness promise: both timers are armed, the engine is
\* spawned and its 'error'/'exit' handlers attached.
Spawn(u) ==
    /\ upc[u] = "spawn"
    /\ \/ \E p \in Procs :
            /\ NewProc(p)
            /\ rclonePort' = p
            /\ proc' = [proc EXCEPT ![p] = [alive |-> TRUE, lis |-> TRUE, owner |-> u]]
            /\ rcloneProcess' = p
            /\ alloc' = alloc \cup {"engine"}
            /\ iv' = [iv EXCEPT ![u] = TRUE]
            /\ to' = [to EXCEPT ![u] = TRUE]
            /\ prom' = [prom EXCEPT ![u] = "pending"]
            /\ upc' = [upc EXCEPT ![u] = "wait"]
            /\ startMutex' = startMutex
            /\ ev' = NoEv
       \/ /\ StartFail(u, "rcport")
          /\ alloc' = {}
          /\ UNCHANGED <<rclonePort, proc, rcloneProcess, iv, to, prom>>
    /\ UNCHANGED <<active, webdavServer, webdavPort, monitorProcess, srv,
                   stopMutex, sf, stgt, sclean, ivp, tmo, mpc, monitors, quiet, calls,
                   credVars, watchdogs,
                   auxVars>>

\* await of the readiness promise resumes; when it resolved, the probe of
\* line 1061 begins (it answers false at once without a handle).
StartAfterWait(u) ==
    /\ upc[u] = "wait"
    /\ prom[u] \in {"resolved", "rejected", "timeout", "stopError"}
    /\ prom' = [prom EXCEPT ![u] = "none"]
    /\ IF prom[u] = "resolved" /\ rcloneProcess # 0
       THEN /\ upc' = [upc EXCEPT ![u] = "final"]
            /\ alloc' = alloc
            /\ startMutex' = startMutex
            /\ ev' = NoEv
       ELSE /\ StartFail(u, CASE prom[u] = "resolved" -> "final"
                               [] prom[u] = "timeout" -> "timeout"
                               [] prom[u] = "stopError" -> "stopError"
                               [] OTHER -> "wait")
            /\ alloc' = {}
    /\ UNCHANGED <<active, rcloneProcess, webdavServer, webdavPort, rclonePort,
                   monitorProcess, proc, srv, stopMutex, sf, stgt, sclean,
                   iv, to, ivp, tmo, mpc, monitors, quiet, calls,
                   credVars, watchdogs,
                   auxVars>>

\* As StartFinal, with the test of the probe of line 1061 left out.
StartFinalNoProbe(u) ==
    /\ upc[u] = "final"
    /\ active' = TRUE
    /\ upc' = [upc EXCEPT ![u] = "idle"]
    /\ startMutex' = Release(startMutex)
    /\ ev' = [Ev("startRet", u, TRUE, "final") EXCEPT !.alloc = alloc]
    /\ alloc' = {}
    /\ UNCHANGED <<rcloneProcess, webdavServer, webdavPort, rclonePort,
                   monitorProcess, proc, srv, stopMutex, sf, stgt, sclean,
                   prom, iv, to, ivp, tmo, mpc, monitors, quiet, calls,
                   credVars, watchdogs,
                   auxVars>>

\* The probe of line 1061 answers; active is set on true.
StartFinal(u) ==
    /\ upc[u] = "final"
    /\ \E r \in ProbeOutcomes :
         IF r
         THEN /\ active' = TRUE
              /\ upc' = [upc EXCEPT ![u] = "idle"]
              /\ startMutex' = Release(startMutex)
              /\ ev' = [Ev("startRet", u, TRUE, "final") EXCEPT !.alloc = alloc]
         ELSE /\ active' = active
              /\ StartFail(u, "final")
    /\ alloc' = {}
    /\ UNCHANGED <<rcloneProcess, webdavServer, webdavPort, rclonePort,
                   monitorProcess, proc, srv, stopMutex, sf, stgt, sclean,
                   prom, iv, to, ivp, tmo, mpc, monitors, quiet, calls,
                   credVars, watchdogs,
                   auxVars>>

StartStep(u) ==
    \/ StartCall(u)
    \/ StartAcquired(u)
    \/ Check(u)
    \/ Port(u)
    \/ WStart(u)
    \/ Config(u)
    \/ Watchdog(u)
    \/ WatchdogUp(u)
    \/ Spawn(u)
    \/ StartAfterWait(u)
    \/ StartFinal(u)

\* ------------------------------------------------------- readiness wait
\* checkInterval fires: isMountActuallyActive is called.  Without a handle
\* it answers false and the callback does nothing.
IntervalFire(u) ==
    /\ iv[u]
    /\ ~ivp[u]
    /\ rcloneProcess # 0
    /\ ivp' = [ivp EXCEPT ![u] = TRUE]
    /\ ev' = NoEv
    /\ UNCHANGED <<active, rcloneProcess, webdavServer, webdavPort, rclonePort,
                   monitorProcess, proc, srv, startMutex, stopMutex, upc, sf, stgt,
                   sclean, prom, iv, to, tmo, mpc, monitors, quiet, calls,
                   credVars, alloc, watchdogs,
                   auxVars>>

\* The interval probe answers: on true both timers are cleared and the
\* promise resolved.
IntervalProbeEnd(u) ==
    /\ ivp[u]
    /\ \E r \in ProbeOutcomes :
         /\ ev' = NoEv
         /\ IF r
            THEN /\ iv' = [iv EXCEPT ![u] = FALSE]
                 /\ to' = [to EXCEPT ![u] = FALSE]
                 /\ Settle(u, "resolved")
            ELSE /\ ivp' = [ivp EXCEPT ![u] = FALSE]
                 /\ UNCHANGED <<iv, to, prom, proc>>
    /\ UNCHANGED <<active, rcloneProcess, webdavServer, webdavPort, rclonePort,
                   monitorProcess, srv, startMutex, stopMutex, upc, sf, stgt,
                   sclean, tmo, mpc, monitors, quiet, calls,
                   credVars, alloc, watchdogs,
                   auxVars>>

\* checkTimeout fires: both timers are cleared and a last probe is made;
\* without a handle it answers false at once and stop() is called.
TimeoutFire(u) ==
    /\ to[u]
    /\ iv' = [iv EXCEPT ![u] = FALSE]
    /\ to' = [to EXCEPT ![u] = FALSE]
    /\ IF rcloneProcess = 0
       THEN /\ tmo' = [tmo EXCEPT ![u] = "stopping"]
            /\ EnterStop(TmoOf(u))
            /\ ev' = NoEv
       ELSE /\ tmo' = [tmo EXCEPT ![u] = "probing"]
            /\ ev' = NoEv
            /\ UNCHANGED <<sf, stopMutex>>
    /\ UNCHANGED <<active, rcloneProcess, webdavServer, webdavPort, rclonePort,
                   monitorProcess, proc, srv, startMutex, upc, stgt, sclean,
                   prom, ivp, mpc, monitors, quiet, calls,
                   credVars, alloc, watchdogs,
                   auxVars>>

\* The last probe answers: resolve on true, stop() on false.
TimeoutProbeEnd(u) ==
    /\ tmo[u] = "probing"
    /\ \E r \in ProbeOutcomes :
         /\ ev' = NoEv
         /\ IF r
            THEN /\ tmo' = [tmo EXCEPT ![u] = "off"]
                 /\ Settle(u, "resolved")
                 /\ UNCHANGED <<sf, stopMutex>>
            ELSE /\ tmo' = [tmo EXCEPT ![u] = "stopping"]
                 /\ EnterStop(TmoOf(u))
                 /\ UNCHANGED <<prom, ivp, proc>>
    /\ UNCHANGED <<active, rcloneProcess, webdavServer, webdavPort, rclonePort,
                   monitorProcess, srv, startMutex, upc, stgt, sclean,
                   iv, to, mpc, monitors, quiet, calls,
                   credVars, alloc, watchdogs,
                   auxVars>>

\* The 'error' or 'exit' handler of an engine process that ended with its
\* listeners attached: the handle is cleared whatever it refers to, the
\* timers of the wait that spawned it are cleared and its promise rejected.
EngineEvent(p) ==
    /\ proc[p].lis
    /\ ~proc[p].alive
    /\ rcloneProcess' = 0
    /\ LET o == proc[p].owner IN
         IF o # NoOne
         THEN /\ iv' = [iv EXCEPT ![o] = FALSE]
              /\ to' = [to EXCEPT ![o] = FALSE]
              /\ prom' = [prom EXCEPT ![o] = "rejected"]
              /\ ivp' = [ivp EXCEPT ![o] = FALSE]
         ELSE UNCHANGED <<iv, to, prom, ivp>>
    /\ proc' = [proc EXCEPT ![p] = DeadProc]
    /\ ev' = NoEv
    /\ UNCHANGED <<active, webdavServer, webdavPort, rclonePort, monitorProcess,
                   srv, startMutex, stopMutex, upc, sf, stgt, sclean, tmo, mpc, monitors,
                   quiet, calls,
                   credVars, alloc, watchdogs,
                   auxVars>>

\* An engine process ends: it fails to launch, exits on its own, ends on
\* SIGTERM or is killed from outside.
EngineCrash(p) ==
    /\ proc[p].alive
    /\ proc' = [proc EXCEPT ![p].alive = FALSE]
    /\ ev' = NoEv
    /\ UNCHANGED <<active, rcloneProcess, webdavServer, webdavPort, rclonePort,
                   monitorProcess, srv, startMutex, stopMutex, upc, sf, stgt,
                   sclean, prom, iv, to, ivp, tmo, mpc, monitors, quiet, calls,
                   credVars, alloc, watchdogs,
                   auxVars>>

\* The watchdog exits after its first second: its 'exit' handler clears
\* the handle.  Only the next spawnRClone reads the handle, so the exit is
\* taken when a start() is about to read it.
WatchdogExit ==
    /\ monitorProcess
    /\ \E u \in Users : upc[u] = "config"
    /\ monitorProcess' = FALSE
    /\ watchdogs' = watchdogs - 1
    /\ ev' = NoEv
    /\ UNCHANGED <<active, rcloneProcess, webdavServer, webdavPort, rclonePort,
                   proc, srv, startMutex, stopMutex, upc, sf, stgt, sclean,
                   prom, iv, to, ivp, tmo, mpc, monitors, quiet, calls,
                   credVars, alloc,
                   auxVars>>

\* ---------------------------------------------------------------- monitor
\* As MonitorWake, with the test of this.active left out.
MonitorWakeNoActiveTest ==
    /\ mpc = "sleep"
    /\ monitors' = (monitors - 1) + 1
    /\ IF rcloneProcess = 0
       THEN /\ mpc' = "stopping"
            /\ EnterStop("mon")
            /\ ev' = NoEv
       ELSE /\ mpc' = "probing"
            /\ ev' = NoEv
            /\ UNCHANGED <<sf, stopMutex>>
    /\ UNCHANGED <<active, rcloneProcess, webdavServer, webdavPort, rclonePort,
                   monitorProcess, proc, srv, startMutex, upc, stgt, sclean,
                   prom, iv, to, ivp, tmo, quiet, calls,
                   credVars, alloc, watchdogs,
                   auxVars>>

\* As MonitorWake, with the test of this.active placed before the try
\* block: while not active the invocation returns without reaching the
\* finally block and calls no successor.
MonitorWakeReturnsBeforeTry ==
    /\ mpc = "sleep"
    /\ monitors' = IF active THEN (monitors - 1) + 1 ELSE monitors - 1
    /\ IF ~active
       THEN /\ ev' = NoEv
            /\ mpc' = "ended"
            /\ UNCHANGED <<sf, stopMutex>>
       ELSE IF rcloneProcess = 0
            THEN /\ mpc' = "stopping"
                 /\ EnterStop("mon")
                 /\ ev' = NoEv
            ELSE /\ mpc' = "probing"
                 /\ ev' = NoEv
                 /\ UNCHANGED <<sf, stopMutex>>
    /\ UNCHANGED <<active, rcloneProcess, webdavServer, webdavPort, rclonePort,
                   monitorProcess, proc, srv, startMutex, upc, stgt, sclean,
                   prom, iv, to, ivp, tmo, quiet, calls,
                   credVars, alloc, watchdogs,
                   auxVars>>

\* The sleep of the finally block ends: the invocation calls monitor() and
\* is over, and the invocation it called runs: nothing while not active,
\* which takes it to its own finally; else the probe begins, and without a
\* handle it answers false at once and stop() is called.
MonitorWake ==
    /\ mpc = "sleep"
    /\ monitors' = (monitors - 1) + 1
    /\ IF ~active
       THEN /\ ev' = NoEv
            /\ UNCHANGED <<mpc, sf, stopMutex>>
       ELSE IF rcloneProcess = 0
            THEN /\ mpc' = "stopping"
                 /\ EnterStop("mon")
                 /\ ev' = NoEv
            ELSE /\ mpc' = "probing"
                 /\ ev' = NoEv
                 /\ UNCHANGED <<sf, stopMutex>>
    /\ UNCHANGED <<active, rcloneProcess, webdavServer, webdavPort, rclonePort,
                   monitorProcess, proc, srv, startMutex, upc, stgt, sclean,
                   prom, iv, to, ivp, tmo, quiet, calls,
                   credVars, alloc, watchdogs,
                   auxVars>>

\* The monitor's probe answers: stop() is called on false.  The answer is
\* kept as an observation.
MonitorProbeEnd ==
    /\ mpc = "probing"
    /\ monitors' = monitors
    /\ \E r \in ProbeOutcomes :
         /\ ev' = Ev("probed", "mon", r, "monitor")
         /\ IF r
            THEN /\ mpc' = "sleep"
                 /\ UNCHANGED <<sf, stopMutex>>
            ELSE /\ mpc' = "stopping"
                 /\ EnterStop("mon")
    /\ UNCHANGED <<active, rcloneProcess, webdavServer, webdavPort, rclonePort,
                   monitorProcess, proc, srv, startMutex, upc, stgt, sclean,
                   prom, iv, to, ivp, tmo, quiet, calls,
                   credVars, alloc, watchdogs,
                   auxVars>>

WaitStep(u) ==
    \/ IntervalFire(u)
    \/ IntervalProbeEnd(u)
    \/ TimeoutFire(u)
    \/ TimeoutProbeEnd(u)

MonitorStep ==
    \/ MonitorWake
    \/ MonitorProbeEnd

Environment ==
    \/ \E p \in Procs : EngineCrash(p)
    \/ WatchdogExit

Next ==
    \/ \E f \in Frames : StopStep(f)
    \/ \E u \in Users : UserStopCall(u)
    \/ \E u \in Users : StartStep(u)
    \/ \E u \in Users : WaitStep(u)
    \/ \E p \in Procs : EngineEvent(p)
    \/ MonitorStep
    \/ Environment

Spec == Init /\ [][Next]_vars

\* The event loop runs every callback that is ready, every timer fires and
\* every awaited operation settles.  Users need not call, and engine
\* processes need not end.
Progress(u) ==
    \/ StartAcquired(u)
    \/ Check(u)
    \/ Port(u)
    \/ WStart(u)
    \/ Config(u)
    \/ Watchdog(u)
    \/ WatchdogUp(u)
    \/ Spawn(u)
    \/ StartAfterWait(u)
    \/ StartFinal(u)

Fairness ==
    /\ \A f \in Frames : WF_vars(StopStep(f))
    /\ \A u \in Users : WF_vars(Progress(u))
    /\ \A u \in Users : WF_vars(TimeoutFire(u))
    /\ \A u \in Users : WF_vars(TimeoutProbeEnd(u))
    /\ WF_vars(MonitorProbeEnd)

FairSpec == Init /\ [][Next]_vars /\ Fairness

\* The same program with behaviours one start() longer.
LongNext ==
    \/ Next
    \/ \E u \in Users : OneMoreStart(u)

LongSpec == Init /\ [][LongNext]_vars

\* ------------------------------------------------- binary provisioning
\* getRCloneBinaryPath, one action per stretch between two awaits, for
\* callers that may overlap.

\* catch/finally of getRCloneBinaryPath: the error is logged and rethrown,
\* the mutex released.  Temporary files stay where they are.
ProvisionThrow(c, err) ==
    /\ cpc' = [cpc EXCEPT ![c] = "idle"]
    /\ cret' = [cret EXCEPT ![c] = err]
    /\ getRCloneBinaryMutex' = Release(getRCloneBinaryMutex)

\* getRCloneBinaryPath is called: with the path set it is returned at
\* once; otherwise acquire() takes the mutex when it is free and queues the
\* caller when it is not.
GetPathCall(c) ==
    /\ cpc[c] = "idle"
    /\ IF rcloneBinaryPath # NoPath
       THEN /\ cret' = [cret EXCEPT ![c] = rcloneBinaryPath]
            /\ UNCHANGED <<cpc, getRCloneBinaryMutex>>
       ELSE /\ cpc' = [cpc EXCEPT ![c] = "acq"]
            /\ cret' = [cret EXCEPT ![c] = "none"]
            /\ getRCloneBinaryMutex' = Acquire(getRCloneBinaryMutex, c)
    /\ UNCHANGED <<rcloneBinaryPath, tmp, dest, executable, downloads, lifecycleVars, statsIn, statsOut, probeIn, probeOut, cacheIn, cacheOut>>

\* As Provision, entered without waiting for the mutex.
ProvisionNoLock(c) ==
    /\ cpc[c] = "acq"
    /\ \/ /\ ProvisionThrow(c, "error")
          /\ UNCHANGED <<rcloneBinaryPath, downloads>>
       \/ /\ dest # NoFile
          /\ rcloneBinaryPath' = BinaryPath
          /\ cpc' = [cpc EXCEPT ![c] = "idle"]
          /\ cret' = [cret EXCEPT ![c] = BinaryPath]
          /\ getRCloneBinaryMutex' = Release(getRCloneBinaryMutex)
          /\ downloads' = downloads
       \/ /\ dest = NoFile
          /\ \/ /\ ProvisionThrow(c, "hashEntry")
                /\ downloads' = downloads
             \/ /\ downloads < MaxDownloads
                /\ downloads' = downloads + 1
                /\ cpc' = [cpc EXCEPT ![c] = "dl"]
                /\ UNCHANGED <<cret, getRCloneBinaryMutex>>
          /\ rcloneBinaryPath' = rcloneBinaryPath
    /\ UNCHANGED <<tmp, dest, executable, lifecycleVars, statsIn, statsOut, probeIn, probeOut, cacheIn, cacheOut>>

\* The caller holds the mutex: getConfigPath (may throw), then
\* fs.exists(binaryPath).  With the file there the path is set and
\* returned.  Without it: the missing-hash error when BINARY_HASHES has no
\* entry, else downloadBinaryAndVerifySHA512 begins.
Provision(c) ==
    /\ cpc[c] = "acq"
    /\ getRCloneBinaryMutex.holder = c
    /\ \/ /\ ProvisionThrow(c, "error")
          /\ UNCHANGED <<rcloneBinaryPath, downloads>>
       \/ /\ dest # NoFile
          /\ rcloneBinaryPath' = BinaryPath
          /\ cpc' = [cpc EXCEPT ![c] = "idle"]
          /\ cret' = [cret EXCEPT ![c] = BinaryPath]
          /\ getRCloneBinaryMutex' = Release(getRCloneBinaryMutex)
          /\ downloads' = downloads
       \/ /\ dest = NoFile
          /\ \/ /\ ProvisionThrow(c, "hashEntry")
                /\ downloads' = downloads
             \/ /\ downloads < MaxDownloads
                /\ downloads' = downloads + 1
                /\ cpc' = [cpc EXCEPT ![c] = "dl"]
                /\ UNCHANGED <<cret, getRCloneBinaryMutex>>
          /\ rcloneBinaryPath' = rcloneBinaryPath
    /\ UNCHANGED <<tmp, dest, executable, lifecycleVars, statsIn, statsOut, probeIn, probeOut, cacheIn, cacheOut>>

\* downloadBinaryAndVerifySHA512 up to the end of the write stream: the
\* response is written to the temporary file; the request or the writer
\* may fail, leaving whatever was written.
Download(c) ==
    /\ cpc[c] = "dl"
    /\ \/ \E d \in Contents :
            /\ tmp' = [tmp EXCEPT ![c] = d]
            /\ cpc' = [cpc EXCEPT ![c] = "verify"]
            /\ UNCHANGED <<cret, getRCloneBinaryMutex>>
       \/ \E d \in Contents \cup {NoFile} :
            /\ tmp' = [tmp EXCEPT ![c] = d]
            /\ ProvisionThrow(c, "error")
    /\ UNCHANGED <<rcloneBinaryPath, dest, executable, downloads, lifecycleVars, statsIn, statsOut, probeIn, probeOut, cacheIn, cacheOut>>

\* As Verify, with the comparison of the digests left out.
VerifyNoCompare(c) ==
    /\ cpc[c] = "verify"
    /\ \/ /\ ProvisionThrow(c, "error")
          /\ UNCHANGED <<tmp, dest, executable>>
       \/ /\ dest' = tmp[c]
          /\ executable' = FALSE
          /\ tmp' = [tmp EXCEPT ![c] = NoFile]
          /\ cpc' = [cpc EXCEPT ![c] = "chmod"]
          /\ UNCHANGED <<cret, getRCloneBinaryMutex>>
    /\ UNCHANGED <<rcloneBinaryPath, downloads, lifecycleVars, statsIn, statsOut, probeIn, probeOut, cacheIn, cacheOut>>

\* The rest of downloadBinaryAndVerifySHA512: the digest of the temporary
\* file is computed (reading may fail) and compared; on a mismatch it
\* throws, else fs.move puts the temporary file at the destination (or
\* fails).  The file is the one createWriteStream made: its x bits are not
\* set.
Verify(c) ==
    /\ cpc[c] = "verify"
    /\ \/ /\ ProvisionThrow(c, "error")
          /\ UNCHANGED <<tmp, dest, executable>>
       \/ /\ SHA512(tmp[c]) # BINARY_HASH
          /\ ProvisionThrow(c, "mismatch")
          /\ UNCHANGED <<tmp, dest, executable>>
       \/ /\ SHA512(tmp[c]) = BINARY_HASH
          /\ dest' = tmp[c]
          /\ executable' = FALSE
          /\ tmp' = [tmp EXCEPT ![c] = NoFile]
          /\ cpc' = [cpc EXCEPT ![c] = "chmod"]
          /\ UNCHANGED <<cret, getRCloneBinaryMutex>>
    /\ UNCHANGED <<rcloneBinaryPath, downloads, lifecycleVars, statsIn, statsOut, probeIn, probeOut, cacheIn, cacheOut>>

\* chmod +x outside win32 (may fail), then the path is set, the mutex
\* released and the path returned.
Chmod(c) ==
    /\ cpc[c] = "chmod"
    /\ \/ /\ ProvisionThrow(c, "error")
          /\ UNCHANGED <<rcloneBinaryPath, executable>>
       \/ /\ executable' = TRUE
          /\ rcloneBinaryPath' = BinaryPath
          /\ cpc' = [cpc EXCEPT ![c] = "idle"]
          /\ cret' = [cret EXCEPT ![c] = BinaryPath]
          /\ getRCloneBinaryMutex' = Release(getRCloneBinaryMutex)
    /\ UNCHANGED <<tmp, dest, downloads, lifecycleVars, statsIn, statsOut, probeIn, probeOut, cacheIn, cacheOut>>

ProvisionNext ==
    \/ \E c \in Callers : GetPathCall(c)
    \/ \E c \in Callers : Provision(c)
    \/ \E c \in Callers : Download(c)
    \/ \E c \in Callers : Verify(c)
    \/ \E c \in Callers : Chmod(c)

ProvisionSpec == Init /\ [][ProvisionNext]_vars

\* A file is at the install path before getRCloneBinaryPath is first
\* called: left by an earlier run or put there by anything else that
\* writes to the config directory, with any content and mode.
Preinstalled ==
    /\ dest = NoFile
    /\ downloads = 0
    /\ rcloneBinaryPath = NoPath
    /\ \A c \in Callers : cpc[c] = "idle" /\ cret[c] = "none"
    /\ \E d \in Contents, x \in BOOLEAN :
          /\ dest' = d
          /\ executable' = x
    /\ UNCHANGED <<rcloneBinaryPath, getRCloneBinaryMutex, cpc, cret, tmp, downloads,
                   lifecycleVars, statsIn, statsOut, probeIn, probeOut, cacheIn, cacheOut>>

\* getRCloneBinaryPath in a config directory that may hold a file at the
\* install path already.
InstalledSpec == Init /\ [][ProvisionNext \/ Preinstalled]_vars

\* ------------------------------------------------------------- calls of getStats()
\* A call of getStats() with this.active as it is then and the answers the
\* engine gives.  getStats() keeps nothing from one call to the next, so
\* a behaviour has one call.
GetStats ==
    /\ ~statsOut.called
    /\ \E in \in StatsInputs :
          /\ statsIn' = in
          /\ statsOut' = getStats(in)
    /\ UNCHANGED <<lifecycleVars, provisionVars, probeIn, probeOut, cacheIn, cacheOut>>

StatsSpec == Init /\ [][GetStats]_vars

\* ------------------------------------------ isMountActuallyActive, called
\* One call of isMountActuallyActive with what it meets.
IsMountActuallyActive ==
    /\ ~probeOut.called
    /\ \E in \in ProbeInputs :
          /\ probeIn' = in
          /\ probeOut' = isMountActuallyActive(in)
    /\ UNCHANGED <<lifecycleVars, provisionVars, statsIn, statsOut, cacheIn, cacheOut>>

ProbeSpec == Init /\ [][IsMountActuallyActive]_vars

\* ------------------------------------------------- rcloneArgs, called
\* One call of rcloneArgs with what statfs gives for the cache directory.
RcloneArgs ==
    /\ ~cacheOut.called
    /\ \E in \in StatfsAnswers :
          /\ cacheIn' = in
          /\ cacheOut' = [called |-> TRUE, cacheSize |-> cacheSize(getAvailableCacheSize(in))]
    /\ UNCHANGED <<lifecycleVars, provisionVars, statsIn, statsOut, probeIn, probeOut>>

CacheSpec == Init /\ [][RcloneArgs]_vars

\* ------------------------------------------------------------------ claims
StartBody == {"s_stop", "check", "port", "wstart", "config", "wd", "wdw", "spawn", "wait", "final"}

\* start() is past its initial stop() and has not returned.
Establishing == StartBody \ {"s_stop"}

\* Places where start() fails after the endpoint was started.
AfterEndpoint == {"config", "spre", "wdw", "rcport", "wait", "timeout", "final"}
                     \cup {"stopError"}

AllIdle == (\A u \in Users : upc[u] = "idle") /\ (\A f \in Frames : sf[f] = "idle")

LocksFree == startMutex = FreeMutex /\ stopMutex = FreeMutex

\* C1: whenever start() returns with an error, active is false.
C1_FailedStartLeavesStopped ==
    (ev.k = "startRet" /\ ~ev.ok) => ~active

\* C2: when start() returns with an error raised after the endpoint was
\* started, no endpoint is listening and no engine handle is tracked.
C2_FailedStartLeaksNothing ==
    (ev.k = "startRet" /\ ~ev.ok /\ ev.at \in AfterEndpoint)
        => (\A s \in Srvs : ~srv[s]) /\ rcloneProcess = 0

\* C3: a stop() called by a user while the state is Stopped (active false,
\* no engine handle, no endpoint reference, no start() in progress) returns
\* without throwing and leaves the state Stopped.
C3_StopOnStoppedSucceeds ==
    (ev.k = "stopRet" /\ ev.t \in Users /\ sclean[ev.t]) => (ev.ok /\ Stopped)

C3_Witness ==
    /\ ev.k = "stopRet"
    /\ ev.t \in Users
    /\ sclean[ev.t]
    /\ ev.ok
    /\ Stopped
    /\ webdavPort # 0

\* C4: once any stop() has returned, normally or with an error, active is
\* false and the engine handle and the endpoint reference are cleared.
C4_StopAlwaysLeavesStopped ==
    (ev.k = "stopRet" \/ (ev.k = "startRet" /\ ev.at = "stop")) => Stopped

\* C5: at most one start() is past the acquisition of the start lock, it is
\* the holder of the lock, and the lock is held by nobody that is not in
\* start(): it was released on every exit path.
C5_StartSerialized ==
    /\ Cardinality({u \in Users : upc[u] \in StartBody}) <= 1
    /\ \A u \in Users : upc[u] \in StartBody => startMutex.holder = u
    /\ startMutex.holder # NoOne => upc[startMutex.holder] \in StartBody \cup {"sacq"}
    /\ \A i \in 1 .. Len(startMutex.waiting) : upc[startMutex.waiting[i]] = "sacq"

C5_Witness ==
    \E u, v \in Users :
        /\ upc[u] \in Establishing
        /\ upc[v] = "sacq"
        /\ startMutex.holder = u
        /\ startMutex.waiting = <<v>>

\* C6: no stop() called by the monitor executes its teardown while a
\* start() is between the end of its initial stop() and its return.
C6_MonitorStopNeverRacesStart ==
    ~(sf["mon"] \in StopBody /\ \E u \in Users : upc[u] \in Establishing)

\* C7: every call eventually returns (again and again no call is in
\* progress), and both locks are free whenever no call is in progress.
C7_NoDeadlock ==
    /\ []<>AllIdle
    /\ [](AllIdle => LocksFree)

C7_Witness ==
    \E u \in Users :
        /\ upc[u] = "wait"
        /\ startMutex.holder = u
        /\ stopMutex.holder = TmoOf(u)
        /\ sf[TmoOf(u)] \in StopBody
        /\ Len(stopMutex.waiting) > 0

\* C8: at most one execution of the body of stop() is in progress, and it
\* is the holder of the stop lock.
C8_StopSerialized ==
    /\ Cardinality({f \in Frames : sf[f] \in StopBody}) <= 1
    /\ \A f \in Frames : sf[f] \in StopBody => stopMutex.holder = f

C8_Witness ==
    \E f, g \in Frames :
        /\ f # g
        /\ sf[f] \in StopBody
        /\ sf[g] = "acq"
        /\ stopMutex.holder = f
        /\ Len(stopMutex.waiting) >= 2

\* C9: active becomes true only in the last step of a start() whose
\* readiness wait resolved and whose further probe answered true, so that
\* the engine lives and the endpoint listens at that moment.
C9_ActiveOnlyWhenReady ==
    [][/\ (~active /\ active') =>
             \E u \in Users :
                 /\ upc[u] = "final"
                 /\ upc'[u] = "idle"
                 /\ ev'.k = "startRet"
                 /\ ev'.ok
                 /\ ev'.t = u
                 /\ TRUE \in ProbeOutcomes
       /\ \A u \in Users :
             (upc[u] # "final" /\ upc'[u] = "final") =>
                 (upc[u] = "wait" /\ prom[u] = "resolved" /\ rcloneProcess # 0)
       /\ (ev'.k = "startRet" /\ ev'.ok) => active']_vars

C9_Witness ==
    /\ ev.k = "startRet"
    /\ ev.ok
    /\ active
    /\ calls = 2

\* C10: after a stop() has completed and while no start() has been called
\* since, the readiness probe answers false, for no handle is tracked.
C10_ProbeFalseAfterStop ==
    quiet => (rcloneProcess = 0 /\ ProbeAnswers = {FALSE})

C10_Witness ==
    /\ quiet
    /\ TRUE \in ProbeOutcomes

\* C11: when the engine has exited while the session is Active and the
\* users made no call after the start() that established it, the stop()
\* the monitor runs leaves the state Stopped with no endpoint listening.
C11_MonitorHeals ==
    [][(/\ sf["mon"] \in StopBody
        /\ sf'["mon"] = "idle"
        /\ active
        /\ rcloneProcess = 0
        /\ calls = 1)
          => (/\ ~active'
              /\ rcloneProcess' = 0
              /\ webdavServer' = 0
              /\ \A s \in Srvs : ~srv'[s])]_vars

\* The monitor has called stop() in an Active session whose engine exited.
C11_Witness ==
    /\ mpc = "stopping"
    /\ sf["mon"] = "acq"
    /\ active
    /\ rcloneProcess = 0
    /\ webdavPort # 0
    /\ srv[webdavPort]
    /\ calls = 1

\* C12: at no time do two engine processes run or two endpoints listen: a
\* start() tears the previous session down before it establishes the next.
C12_OneSessionAtATime ==
    /\ Cardinality({p \in Procs : proc[p].alive}) <= 1
    /\ Cardinality({s \in Srvs : srv[s]}) <= 1

\* Every string drawn so far, and 0 for the constructor's "admin".
EarlierCredentials == 0 .. issued

\* C13: a start() that issues credentials draws a username and a password
\* that no earlier session had and that are not the constructor defaults;
\* the endpoint it constructs is configured with exactly these, and the
\* engine config written afterwards holds this username and the obscured
\* form of this password, addressed to this session's endpoint.
C13_FreshCredentials ==
    [][/\ (webdavServer' # webdavServer /\ webdavServer' # 0) =>
            /\ endpointUser'[webdavServer'] = <<webdavUsername', webdavPassword'>>
            /\ webdavUsername' \notin EarlierCredentials
            /\ webdavPassword' \notin EarlierCredentials
            /\ webdavUsername' # webdavPassword'
       /\ (rcloneConfig' # rcloneConfig) =>
            /\ webdavPort # 0
            /\ rcloneConfig'.url = webdavPort
            /\ rcloneConfig'.user = endpointUser[webdavPort][1]
            /\ rcloneConfig'.pass = obscureRClonePassword(endpointUser[webdavPort][2])
            /\ rcloneConfig'.user = generateRandomString(issued - 2)
            /\ rcloneConfig'.pass = obscureRClonePassword(generateRandomString(issued - 1))]_vars

\* The config of a second session has been written while its endpoint
\* listens.
C13_Witness ==
    /\ issued = 4
    /\ rcloneConfig.user = webdavUsername
    /\ rcloneConfig.url = webdavPort
    /\ webdavServer = webdavPort
    /\ webdavPort # 0
    /\ srv[webdavPort]

\* The errors the validation of the mount target throws.
MountPointErrors == {"letter", "dollar", "home", "exist", "empty"}

\* C14: a start() that reaches the validation with an invalid mount target
\* (POSIX: the path does not exist, is not empty, contains '$' or lies
\* outside the home directory; Windows: the drive letter is not available)
\* throws there, with an error that names a fault the target has ("exist"
\* for a path whose only fault is that it does not exist); at that moment
\* this start() has allocated nothing (no port, credentials, endpoint,
\* config, watchdog or engine) and the state is Stopped.
C14_ValidationBeforeAllocation ==
    LET m == ev.m
        invalid == IF m.platform = "win32"
                   THEN ~m.letterFree
                   ELSE ~m.exists \/ ~m.empty \/ m.dollar \/ ~UnderHome(m.path)
    IN  /\ ev.k = "checked" => ~invalid
        /\ (ev.k = "startRet" /\ ev.at \in MountPointErrors) =>
              /\ ~ev.ok
              /\ invalid
              /\ ev.alloc = {}
              /\ Stopped
              /\ ev.at = "letter" => m.platform = "win32" /\ ~m.letterFree
              /\ ev.at = "dollar" => m.platform = "posix" /\ m.dollar
              /\ ev.at = "home" => m.platform = "posix" /\ ~UnderHome(m.path)
              /\ ev.at = "exist" => m.platform = "posix" /\ ~(m.exists /\ m.dir)
              /\ ev.at = "empty" => m.platform = "posix" /\ ~m.empty
              /\ (m.platform = "posix" /\ ~m.exists /\ ~m.dollar /\ UnderHome(m.path)) => ev.at = "exist"

\* A second start() is refused for a path that does not exist, after the
\* teardown of a first session that had an endpoint.
C14_Witness ==
    /\ ev.k = "startRet"
    /\ ev.at = "exist"
    /\ ~ev.m.exists
    /\ webdavPort # 0
    /\ calls = 2

C16_NoFileOnHashMismatch ==
    [][/\ dest' # dest =>
            /\ SHA512(dest') = BINARY_HASH
            /\ \E c \in Callers : cpc[c] = "verify" /\ tmp[c] = dest'
       /\ \A c \in Callers :
            (cpc[c] = "verify" /\ SHA512(tmp[c]) # BINARY_HASH /\ cpc'[c] # "verify") =>
                /\ dest' = dest
                /\ cpc'[c] = "idle"
                /\ cret'[c] \in {"mismatch", "error"}]_vars

\* A download delivered something else than the published binary and was
\* refused: the caller threw, the temporary file is still there and nothing
\* is at the install path.
C16_Witness ==
    \E c \in Callers :
        /\ cret[c] = "mismatch"
        /\ cpc[c] = "idle"
        /\ tmp[c] # NoFile
        /\ SHA512(tmp[c]) # BINARY_HASH
        /\ dest = NoFile

\* Callers whose download is in progress.
Downloading == {c \in Callers : cpc[c] \in {"dl", "verify", "chmod"}}

\* C17: at most one download of the engine binary is in progress; while
\* the binary is installed no download runs, so after a download that
\* succeeded no second one is performed; and every caller that gets a path
\* gets the one install path, with the binary installed there.
C17_SingleDownload ==
    /\ Cardinality(Downloading) <= 1
    /\ dest # NoFile => \A c \in Callers : cpc[c] \notin {"dl", "verify"}
    /\ \A c \in Callers :
          cret[c] \notin {"none", "error", "mismatch", "hashEntry"} =>
              /\ cret[c] = BinaryPath
              /\ rcloneBinaryPath = BinaryPath
              /\ dest # NoFile
    /\ (rcloneBinaryPath # NoPath /\ downloads > 0) => dest = Published

\* Three callers asked for the binary before it was there: one has
\* downloaded it and got the path, the second holds the mutex and the
\* third waits for it; one download was made.
C17_Witness ==
    /\ downloads = 1
    /\ dest = Published
    /\ \E c \in Callers :
          /\ cret[c] = BinaryPath
          /\ \A d \in Callers \ {c} : cpc[d] = "acq"

\* C18: getStats() never throws; when the session is not active it gives
\* the zeroed result without querying the engine; when either query fails,
\* times out or answers without a body it gives the zeroed result.
C18_StatsNeverThrow ==
    statsOut.called =>
        /\ ~statsOut.threw
        /\ ~statsIn.active => (statsOut.r = ZeroStats /\ ~statsOut.queried)
        /\ (statsIn.core.status # "ok" \/ statsIn.vfs.status # "ok") => statsOut.r = ZeroStats

\* getStats() was called on an active session, the core query answered
\* with a transfer and the vfs query timed out: the result is zeroed.
C18_Witness ==
    /\ statsOut.called
    /\ statsIn.active
    /\ statsIn.core.status = "ok"
    /\ Len(statsIn.core.items) = 1
    /\ statsIn.vfs.status = "timeout"
    /\ statsOut.queried
    /\ statsOut.r = ZeroStats

\* C19: cleanupRClone never raises: a stop() that is past the wait of
\* cleanupRClone goes on to the health check, whatever became of the engine
\* handle during the wait.
C19_TeardownNeverRaises ==
    [][\A f \in Frames : (sf[f] = "c2" /\ sf'[f] # "c2") => sf'[f] = "hc"]_vars

\* Teardown is waiting after SIGTERM and the handle it signalled has been
\* set to null meanwhile.
C19_Witness == \E f \in Frames : sf[f] = "c2" /\ rcloneProcess = 0

\* ------------------------------------------------------------------
\* C20: the watchdog is spawned once per lifetime of the instance: a step
\* spawns a watchdog only when no watchdog handle is tracked, no step of a
\* stop() ends the watchdog or clears its handle, and at most one watchdog
\* of the instance is alive.
C20_WatchdogOncePerLifetime ==
    [][/\ watchdogs' > watchdogs => ~monitorProcess
       /\ (\E f \in Frames : sf'[f] # sf[f]) =>
              /\ monitorProcess' = monitorProcess
              /\ watchdogs' = watchdogs
       /\ watchdogs' <= 1]_vars

\* A stop() is past the kill by name of cleanupRClone, and the watchdog that
\* the start() in progress spawned and still waits for is gone with its handle.
C20_Witness ==
    /\ \E f \in Frames : sf[f] = "hc"
    /\ \E u \in Users : upc[u] = "wdw"
    /\ ~monitorProcess
    /\ watchdogs = 0

\* ------------------------------------------------------------------
\* C21: when the deadline of the readiness wait fired and the final probe
\* answered true, the wait of that start() resolves; when it answered false,
\* stop() is run to completion first: as long as the stop() of the timeout
\* callback runs, the start() is still waiting with its promise pending, and
\* when that stop() is over the promise is rejected with the timeout error.
C21_ReadinessTimeout ==
    [][\A u \in Users :
         /\ (tmo[u] = "probing" /\ tmo'[u] = "off" /\ prom[u] = "pending") =>
                prom'[u] = "resolved"
         /\ tmo'[u] = "stopping" => (upc'[u] = "wait" /\ prom'[u] = "pending")
         /\ (tmo[u] = "stopping" /\ tmo'[u] = "off") => prom'[u] = "timeout"]_vars

\* The stop() of a timeout callback is over and the start() that waited is
\* about to fail with the timeout error.
C21_Witness ==
    \E u \in Users : upc[u] = "wait" /\ prom[u] = "timeout" /\ tmo[u] = "off"

\* ------------------------------------------------------------------
\* C22: the monitor never throws out of its loop: when the stop() it called
\* returns or throws, the monitor goes back to sleep, from where it wakes
\* again, and no caller is touched by the error: no call position, promise
\* or start lock changes in that step.
C22_MonitorNeverThrows ==
    [][(sf["mon"] # "idle" /\ sf'["mon"] = "idle") =>
           /\ mpc' = "sleep"
           /\ upc' = upc
           /\ prom' = prom
           /\ startMutex' = startMutex]_vars

\* The stop() called by the monitor has thrown and the monitor sleeps again.
C22_Witness ==
    /\ ev.k = "stopRet"
    /\ ev.t = "mon"
    /\ ~ev.ok
    /\ mpc = "sleep"

\* ------------------------------------------------------------------
\* C23: the monitor acts only while active: while it sleeps and active is
\* false no step makes it probe or call stop(); it leaves its sleep for a
\* stop() at once only when active is true and no handle is tracked (the
\* probe answers false without waiting); and when its probe answers, it
\* calls stop() if and only if the answer was false.
C23_MonitorActsOnlyWhenActive ==
    [][/\ (mpc = "sleep" /\ ~active) => (mpc' = "sleep" /\ sf'["mon"] = "idle")
       /\ (mpc = "sleep" /\ mpc' = "probing") => (active /\ rcloneProcess # 0)
       /\ (mpc = "sleep" /\ mpc' = "stopping") => (active /\ rcloneProcess = 0)
       /\ (mpc = "probing" /\ mpc' # "probing") =>
              /\ ev'.k = "probed"
              /\ ev'.ok <=> mpc' = "sleep"
              /\ ~ev'.ok <=> mpc' = "stopping"
       /\ (sf["mon"] = "idle" /\ sf'["mon"] # "idle") =>
              (mpc # "stopping" /\ mpc' = "stopping")]_vars

\* The monitor's probe has answered false in a wake that found active true,
\* and the monitor has called stop().
C23_Witness ==
    /\ ev.k = "probed"
    /\ ~ev.ok
    /\ mpc = "stopping"
    /\ sf["mon"] # "idle"

\* ------------------------------------------------------------------
\* C24: stop() runs the engine teardown first and the endpoint stop second.
\* A stop() that has the stop lock goes into cleanupRClone whether the
\* session is active or not, and the kill by name is part of it; the health
\* check and the stop of the endpoint are reached only from a finished
\* cleanupRClone; and an endpoint stops listening only in the step of a
\* stop() that is past the teardown and awaits the stop of that endpoint.
C24_TeardownBeforeEndpointStop ==
    [][/\ \A f \in Frames :
            /\ (sf[f] = "acq" /\ sf'[f] # "acq") => sf'[f] \in {"c2", "hc"}
            /\ (sf[f] # "hc" /\ sf'[f] = "hc") =>
                   /\ sf[f] \in {"acq", "c2"}
                   /\ \A p \in Procs : ~proc'[p].alive
            /\ (sf[f] # "ws" /\ sf'[f] = "ws") => sf[f] = "hc"
       /\ \A s \in Srvs : (srv[s] /\ ~srv'[s]) =>
              \E f \in Frames : sf[f] = "ws" /\ stgt[f] = s]_vars

\* A stop() called while the session is not active is past the teardown and
\* awaits the stop of the endpoint.
C24_Witness == \E f \in Frames : sf[f] = "ws" /\ ~active

\* ------------------------------------------------------------------
\* C25: the config file is rewritten on every start().  The step of a
\* start() that writes it comes after the endpoint of this start() was
\* started and writes the URL, the username and the obscured password of
\* this session; the step that spawns the engine comes after that write, and
\* the file then still names the endpoint and the credentials that this
\* start() issued and constructed its endpoint with, the latest issued.
C25_ConfigRewrittenEveryStart ==
    [][/\ ("config" \in alloc' /\ "config" \notin alloc) =>
              /\ "endpoint" \in alloc
              /\ rcloneConfig' = [url |-> webdavPort,
                                  user |-> webdavUsername,
                                  pass |-> obscureRClonePassword(webdavPassword)]
       /\ ("engine" \in alloc' /\ "engine" \notin alloc) =>
              /\ "config" \in alloc
              /\ rcloneConfig'.url = webdavPort
              /\ rcloneConfig'.user = generateRandomString(issued - 2)
              /\ rcloneConfig'.pass = obscureRClonePassword(generateRandomString(issued - 1))
              /\ rcloneConfig'.pass # webdavPassword
              /\ endpointUser[webdavPort] = <<webdavUsername, webdavPassword>>
              /\ webdavUsername = generateRandomString(issued - 2)
              /\ webdavPassword = generateRandomString(issued - 1)]_vars

\* The engine of a second session has been spawned, against a config that
\* names the credentials of that session.
C25_Witness ==
    /\ \E u \in Users : upc[u] = "wait"
    /\ "engine" \in alloc
    /\ issued > 2
    /\ rcloneConfig.user = generateRandomString(issued - 2)

C27_ProbeTrueIffAllChecksPass ==
    probeOut.called =>
        /\ ~probeOut.threw
        /\ probeOut.r <=> /\ probeIn.handle
                          /\ probeIn.access = "ok"
                          /\ probeIn.http = 401
                          /\ probeIn.vfs.status = "ok"
                          /\ probeIn.vfs.listed
                          /\ "Filen:" \in probeIn.vfs.vfses

\* A call where the mount and the endpoint are fine and the engine answers
\* with a body that has no list: includes() throws, the answer is false.
C27_Witness ==
    /\ probeOut.called
    /\ probeIn.handle
    /\ probeIn.access = "ok"
    /\ probeIn.http = 401
    /\ probeIn.vfs.status = "ok"
    /\ ~probeIn.vfs.listed
    /\ ~probeOut.r

\* ------------------------------------------------------------------
\* C28: an engine handle whose process has exited is never the target of a
\* signal: the step of cleanupRClone that sends SIGTERM through the handle,
\* and the step after the wait that sends kill -9 to the pid of the handle,
\* find the process of the handle alive.
C28_NoSignalToExitedEngine ==
    [][\A f \in Frames :
         /\ (sf[f] = "acq" /\ sf'[f] = "c2") => proc[rcloneProcess].alive
         /\ (sf[f] = "c2" /\ sf'[f] = "hc") => proc[rcloneProcess].alive]_vars

\* cleanupRClone is in its wait after SIGTERM, the engine has exited and the
\* handle is still tracked: kill -9 by pid comes next.
C28_Witness ==
    \E f \in Frames :
        /\ sf[f] = "c2"
        /\ rcloneProcess # 0
        /\ ~proc[rcloneProcess].alive

\* ------------------------------------------------------------------
\* C29: spawn errors trigger the full teardown: when start() returns with
\* the error of the engine's 'error' or 'exit' handler or with the error of
\* the watchdog, the engine is torn down and the endpoint stopped: no engine
\* process is alive, no endpoint listens, and the handle, the endpoint
\* reference and the active flag are reset.
C29_SpawnErrorsTearDown ==
    (ev.k = "startRet" /\ ~ev.ok /\ ev.at \in {"wait", "wdw"}) =>
        /\ \A p \in Procs : ~proc[p].alive
        /\ \A s \in Srvs : ~srv[s]
        /\ rcloneProcess = 0
        /\ webdavServer = 0
        /\ ~active

\* start() has returned with the error of the engine's 'exit' handler.
C29_Witness == ev.k = "startRet" /\ ~ev.ok /\ ev.at = "wait"

\* ------------------------------------------------------------------
\* C30: after a download that failed on a hash mismatch nothing that the
\* attempt wrote is left on disk: the temporary file of the caller that
\* threw is gone, and the file at the install path, if any, is not the
\* refused content.
C30_MismatchDiscardsDownload ==
    \A c \in Callers :
        (cpc[c] = "idle" /\ cret[c] = "mismatch") =>
            /\ tmp[c] = NoFile
            /\ dest # NoFile => SHA512(dest) = BINARY_HASH

\* A caller has thrown on a hash mismatch and its temporary file holds the
\* refused content.
C30_Witness ==
    \E c \in Callers : cret[c] = "mismatch" /\ tmp[c] \in Contents \ {Published}

\* ------------------------------------------------------------------
\* C31: outside win32, whenever getRCloneBinaryPath has returned a path,
\* the file at the install path has been marked executable, also when an
\* earlier call installed the file and failed in chmod.
C31_ReturnedBinaryIsExecutable ==
    \A c \in Callers :
        (cpc[c] = "idle" /\ cret[c] = BinaryPath) => executable

\* A call installed the binary and threw in chmod; a later call returned
\* the path of the file, whose x bits were never set.
C31_Witness ==
    /\ downloads = 1
    /\ dest = Published
    /\ ~executable
    /\ \E c, d \in Callers :
          /\ c # d
          /\ cpc[c] = "idle" /\ cret[c] = "error"
          /\ cpc[d] = "idle" /\ cret[d] = BinaryPath

\* ------------------------------------------------------------------
\* C32: outside win32, a start() whose mount point leads out of the home
\* directory hierarchy, also one that begins with the home directory and
\* leaves it through "..", is rejected by the validation: it never gets as
\* far as the allocation of the port.
C32_MountPointUnderHome ==
    (ev.k = "checked" /\ ev.m.platform = "posix") => UnderHome(ev.m.path)

\* The validation has let pass a mount point that begins with the home
\* directory and leads to /mnt/d; start() goes on to allocate the port.
C32_Witness ==
    /\ ev.k = "checked"
    /\ ev.m.platform = "posix"
    /\ StartsWithHome(ev.m.path)
    /\ Resolve(ev.m.path) = <<"mnt", "d">>
    /\ \E u \in Users : upc[u] = "port"

\* ------------------------------------------------------------------
\* C33: every field of a result of getStats() has its type: the three
\* counters are numbers and every transfer is an object with a string
\* name and numeric size and speed, whatever the engine answered, also
\* when diskCache is missing or ill-typed.
C33_StatsWellTyped ==
    (statsOut.called /\ ~statsOut.threw) =>
        /\ statsOut.r.uploadsInProgress # NotANumber
        /\ statsOut.r.uploadsQueued # NotANumber
        /\ statsOut.r.erroredFiles # NotANumber
        /\ \A i \in DOMAIN statsOut.r.transfers :
              LET t == statsOut.r.transfers[i]
              IN  /\ ~t.null
                  /\ t.name # NotAString
                  /\ t.size # NotANumber
                  /\ t.speed # NotANumber

\* getStats() met a /vfs/stats answer without usable counters and a
\* transferring array with an ill-typed entry, and returned the entry as it
\* came.
C33_Witness ==
    /\ statsOut.called
    /\ ~statsOut.threw
    /\ statsIn.active
    /\ statsIn.vfs.status = "ok"
    /\ ~statsIn.vfs.diskCache
    /\ statsOut.r.transfers # <<>>
    /\ statsOut.r.transfers = statsIn.core.items
    /\ \E i \in DOMAIN statsOut.r.transfers : statsOut.r.transfers[i].size = NotANumber

\* ------------------------------------------------------------------
\* C34: the value of --vfs-cache-max-size is a positive whole number of
\* GiB and, when statfs told the free space of the cache volume, does not
\* exceed that free space.
C34_CacheSizeWithinFreeSpace ==
    cacheOut.called =>
        /\ cacheOut.cacheSize \in Nat \ {0}
        /\ ~cacheIn.err => cacheOut.cacheSize * GiB <= cacheIn.bavail * cacheIn.bsize

\* The cache volume has less than 5 GiB free and the engine is given a
\* bound of 5 GiB.
C34_Witness ==
    /\ cacheOut.called
    /\ ~cacheIn.err
    /\ cacheIn.bavail * cacheIn.bsize = 3 * GiB
    /\ cacheOut.cacheSize = osDiskBufferGib

\* ------------------------------------------------------------------
\* C35: while active is true and no stop() is executing, the resources of
\* the session exist: the endpoint reference is set, and the engine handle
\* is set unless no engine runs any more; a stop() that interleaves with a
\* start() never ends with active true and the references cleared.
C35_ActiveHasResources ==
    (active /\ \A f \in Frames : sf[f] = "idle") =>
        /\ webdavServer # 0
        /\ rcloneProcess # 0 \/ \A p \in Procs : ~proc[p].alive

\* A user's stop() began before start() had created the endpoint and the
\* engine and ended after it had: no call is in progress, active is true,
\* both references are null, and endpoint and engine run unreferenced.
C35_Witness ==
    /\ active
    /\ AllIdle
    /\ webdavServer = 0
    /\ rcloneProcess = 0
    /\ \E p \in Procs : proc[p].alive
    /\ \E s \in Srvs : srv[s]

\* ------------------------------------------------------------------
\* C36: after a stop() has returned without error and while no start() is
\* in progress or was called since, no endpoint that the instance started
\* is listening, also when the health probe of that stop() answered "not
\* online" for an endpoint that was running.
C36_NoEndpointAfterStop ==
    quiet => \A s \in Srvs : ~srv[s]

\* A stop() has just returned without error, no start() is in progress, the
\* references are cleared, and the endpoint of the session it ended is
\* still listening on its port.
C36_Witness ==
    /\ quiet
    /\ ev.k = "stopRet"
    /\ ev.ok
    /\ ev.at = "hc"
    /\ Stopped
    /\ webdavPort # 0
    /\ srv[webdavPort]

\* ------------------------------------------------------------------
\* C37: a readiness wait acts only while its promise is pending: once the
\* promise of spawnRClone has settled, its interval begins no probe and
\* its timeout callback calls no stop().
C37_SettledWaitIsSilent ==
    [][\A u \in Users :
          /\ (~ivp[u] /\ ivp'[u]) => prom[u] = "pending"
          /\ (sf[TmoOf(u)] = "idle" /\ sf'[TmoOf(u)] # "idle") => prom[u] = "pending"]_vars

\* The first start(), by u1, has failed and returned while the last probe
\* of its timeout callback was in flight; the stop() of that callback is
\* running while the start() that u2 called afterwards has spawned its
\* engine and awaits its own readiness.
C37_Witness ==
    /\ sf[TmoOf("u1")] \in StopBody
    /\ prom["u1"] = "none"
    /\ upc["u1"] = "idle"
    /\ upc["u2"] \in {"wait", "final"}
    /\ calls = 2
    /\ rcloneProcess # 0
    /\ proc[rcloneProcess].alive

\* ------------------------------------------------------------------
\* C38: a path that getRCloneBinaryPath has returned refers to a file
\* whose SHA-512 is the digest pinned in BINARY_HASHES, also when a file
\* was at the install path before the call.
C38_ReturnedBinaryHasPinnedHash ==
    \A c \in Callers :
        (cpc[c] = "idle" /\ cret[c] = BinaryPath) =>
            /\ dest # NoFile
            /\ SHA512(dest) = BINARY_HASH

\* A file that is not the published binary was at the install path; a
\* call returned its path without a download.
C38_Witness ==
    /\ downloads = 0
    /\ dest \in Contents \ {Published}
    /\ rcloneBinaryPath = BinaryPath
    /\ \E c \in Callers : cpc[c] = "idle" /\ cret[c] = BinaryPath

\* ------------------------------------------------------------------
\* C39: exactly one monitor loop exists at all times: whichever way an
\* invocation of monitor() goes (not active, probe true, probe false and
\* stop() returning or throwing), one invocation is pending or running
\* afterwards, and the number never grows.
C39_OneMonitorLoop ==
    /\ monitors = 1
    /\ mpc \in {"sleep", "probing", "stopping"}

\* The monitor has found the probe false, called stop(), and stop() has
\* returned: the one invocation sleeps in its finally block.
C39_Witness ==
    /\ ev.k = "stopRet"
    /\ ev.t = "mon"
    /\ ev.ok
    /\ ~active
    /\ mpc = "sleep"
    /\ monitors = 1
====
